---- MODULE Spec2Model ----
(***************************************************************************)
(* PollyXT -> SCC conversion: the repository index, the window assembler   *)
(* and the interval planner of convert_pollyxt_file, with the parsing of   *)
(* the start/end options.                                                  *)
(*                                                                         *)
(* A datetime is an integer: whole seconds since 2021-01-01 00:00:00.      *)
(* Every datetime the planner handles is a whole number of seconds         *)
(* (polly_date_to_datetime adds integer seconds to a date, the option      *)
(* formats carry no fraction), so microseconds are always zero.            *)
(* A Python string is a sequence of one-character strings.                 *)
(***************************************************************************)
EXTENDS Integers, Sequences, FiniteSets, TLC

\* ------------------------------------------------------------------------
\* Bounds of the model
\* ------------------------------------------------------------------------

\* Largest number of rows (raw samples) of a repository.
MaxSamples == 130

\* The consumer of the generator asks for at most this many tuples.
MaxYield == 6

\* Largest number of rows of a raw file handed to the repository directly.
MaxRows == 3

\* Largest number of rows of a run of the polarizer (at +45 or at -45
\* degrees) in a raw file handed to create_scc_calibration_netcdf directly.
MaxRun == 8

\* ------------------------------------------------------------------------
\* datetime arithmetic
\* ------------------------------------------------------------------------

SecondsPerMinute == 60
MinutesPerHour == 60
HoursPerDay == 24
SecondsPerHour == SecondsPerMinute * MinutesPerHour
SecondsPerDay == SecondsPerHour * HoursPerDay

\* Seconds between two consecutive raw samples of the instrument, and the
\* slack convert_pollyxt_file adds to the end of every fetched range.
SamplePeriod == 30

\* datetime.hour, .minute, .second
HourOf(t) == (t % SecondsPerDay) \div SecondsPerHour
MinuteOf(t) == (t % SecondsPerHour) \div SecondsPerMinute
SecondOf(t) == t % SecondsPerMinute
\* The date part of a datetime, as the datetime of its midnight.
DateOf(t) == t - (t % SecondsPerDay)

\* datetime(date of t, hour, minute, second); the fields are in range.
WithTime(t, hour, minute, second) ==
    DateOf(t) + hour * SecondsPerHour + minute * SecondsPerMinute + second

\* Results of operations that may raise: [ok |-> TRUE, value |-> v] or
\* [ok |-> FALSE, value |-> <name of the exception>].
Ok(v) == [ok |-> TRUE, value |-> v]
Raise(e) == [ok |-> FALSE, value |-> e]

\* datetime.replace(hour=, minute=, second=): ValueError on a field out of range.
Replace(t, hour, minute, second) ==
    IF hour \in 0..(HoursPerDay - 1) /\ minute \in 0..(MinutesPerHour - 1)
       /\ second \in 0..(SecondsPerMinute - 1)
    THEN Ok(WithTime(t, hour, minute, second))
    ELSE Raise("ValueError")

\* interval_start.replace(microsecond=0, second=0, minute=0)
FloorHour(t) == t - (t % SecondsPerHour)

\* Proleptic Gregorian calendar, as datetime keeps it.
IsLeap(y) == (y % 4 = 0 /\ y % 100 # 0) \/ y % 400 = 0
DaysBeforeMonthTable == <<0, 31, 59, 90, 120, 151, 181, 212, 243, 273, 304, 334>>
DaysInMonthTable == <<31, 28, 31, 30, 31, 30, 31, 31, 30, 31, 30, 31>>
DaysInMonth(y, m) == IF m = 2 /\ IsLeap(y) THEN 29 ELSE DaysInMonthTable[m]
DaysBeforeYear(y) ==
    365 * (y - 1) + ((y - 1) \div 4) - ((y - 1) \div 100) + ((y - 1) \div 400)
DaysBeforeMonth(y, m) ==
    DaysBeforeMonthTable[m] + (IF m > 2 /\ IsLeap(y) THEN 1 ELSE 0)
\* date.toordinal()
Ordinal(y, m, d) == DaysBeforeYear(y) + DaysBeforeMonth(y, m) + d
\* Day zero of the model's clock: 2021-01-01.
EpochOrdinal == Ordinal(2021, 1, 1)
\* The datetime of a calendar date and a time of day, fields in range.
MakeDatetime(y, m, d, hour, minute, second) ==
    (Ordinal(y, m, d) - EpochOrdinal) * SecondsPerDay
        + hour * SecondsPerHour + minute * SecondsPerMinute + second

\* ------------------------------------------------------------------------
\* Strings and the option parser (utils.date_option_to_datetime)
\* ------------------------------------------------------------------------

DigitChars == <<"0", "1", "2", "3", "4", "5", "6", "7", "8", "9">>
Digits == {DigitChars[i] : i \in 1..10}
DigitVal(c) == (CHOOSE i \in 1..10 : DigitChars[i] = c) - 1

\* Character classes of the regular expressions.
Class012 == {"0", "1", "2"}
Class01 == {"0", "1"}
Class0123 == {"0", "1", "2", "3"}
Class05 == {"0", "1", "2", "3", "4", "5"}

\* re.search(r"^...", string) for a pattern that is a sequence of character
\* classes: the pattern has to match a prefix of the string.
PrefixMatch(s, pat) ==
    /\ Len(s) >= Len(pat)
    /\ \A i \in 1..Len(pat) : s[i] \in pat[i]
\* The same with a closing $ (the strings hold no newline).
FullMatch(s, pat) == Len(s) = Len(pat) /\ PrefixMatch(s, pat)

\* r"^[012]\d:[0-5]\d"
TimePattern == <<Class012, Digits, {":"}, Class05, Digits>>
\* r"^[012]\d:[0-5]\d:[0-5]\d"
TimeSecondsPattern == TimePattern \o <<{":"}, Class05, Digits>>
\* r"^\d{4}-[01]\d-[0123]\d_[012]\d:[0-5]\d"
DatePattern ==
    <<Digits, Digits, Digits, Digits, {"-"}, Class01, Digits, {"-"},
      Class0123, Digits, {"_"}>> \o TimePattern
\* r"^\d{4}-[01]\d-[0123]\d_[012]\d:[0-5]\d:[0-5]\d"
DateSecondsPattern == DatePattern \o <<{":"}, Class05, Digits>>
\* r"^XX:[0-5]\d$"
MinutesPattern == <<{"X"}, {"X"}, {":"}, Class05, Digits>>

\* The number two digit characters spell.
TwoDigits(s, i) == 10 * DigitVal(s[i]) + DigitVal(s[i + 1])

\* datetime.strptime(string, "%Y-%m-%d_%H:%M") and, with seconds,
\* "%Y-%m-%d_%H:%M:%S", for a string that matched DatePattern or
\* DateSecondsPattern: ValueError when text is left over after the format or a
\* field is no calendar value.
Strptime(s, withSeconds) ==
    LET y == 100 * TwoDigits(s, 1) + TwoDigits(s, 3)
        m == TwoDigits(s, 6)
        d == TwoDigits(s, 9)
        hour == TwoDigits(s, 12)
        minute == TwoDigits(s, 15)
        second == IF withSeconds THEN TwoDigits(s, 18) ELSE 0
        len == IF withSeconds THEN Len(DateSecondsPattern) ELSE Len(DatePattern)
    IN  IF /\ Len(s) = len
           /\ y >= 1
           /\ m \in 1..12
           /\ d \in 1..DaysInMonth(y, m)
           /\ hour \in 0..(HoursPerDay - 1)
        THEN Ok(MakeDatetime(y, m, d, hour, minute, second))
        ELSE Raise("ValueError")

\* string.split(":")
RECURSIVE SplitColon(_)
SplitColon(s) ==
    IF \A i \in 1..Len(s) : s[i] # ":"
    THEN <<s>>
    ELSE LET i == CHOOSE k \in 1..Len(s) :
                      s[k] = ":" /\ \A j \in 1..(k - 1) : s[j] # ":"
         IN  <<SubSeq(s, 1, i - 1)>> \o SplitColon(SubSeq(s, i + 1, Len(s)))

\* string.strip(): white space at both ends dropped, as int() does first.
RECURSIVE Strip(_)
Strip(p) ==
    IF Len(p) > 0 /\ p[Len(p)] = " " THEN Strip(SubSeq(p, 1, Len(p) - 1))
    ELSE IF Len(p) > 0 /\ p[1] = " " THEN Strip(SubSeq(p, 2, Len(p)))
    ELSE p

\* int(x) accepts decimal digits, with single underscores between digits
\* and white space around them. (No sign leads a part here: every part the
\* parser converts starts with a digit the pattern matched.)
IntValid(p) ==
    LET q == Strip(p)
    IN  /\ Len(q) > 0
        /\ \A i \in 1..Len(q) : q[i] \in Digits \cup {"_"}
        /\ q[1] # "_" /\ q[Len(q)] # "_"
        /\ \A i \in 1..(Len(q) - 1) : ~(q[i] = "_" /\ q[i + 1] = "_")
RECURSIVE IntValue(_)
IntValue(p) ==
    IF Len(p) = 0 THEN 0
    ELSE LET init == SubSeq(p, 1, Len(p) - 1)
             last == p[Len(p)]
         IN  IF last = "_" THEN IntValue(init)
             ELSE 10 * IntValue(init) + DigitVal(last)

\* [int(x) for x in string.split(":")] unpacked into n names: ValueError when
\* a part is no integer or the number of parts is not n.
SplitInts(s, n) ==
    LET parts == SplitColon(s)
    IN  IF Len(parts) = n /\ \A i \in 1..n : IntValid(parts[i])
        THEN Ok([i \in 1..n |-> IntValue(Strip(parts[i]))])
        ELSE Raise("ValueError")

\* ResolveMinutes with the step to the next hour left out.
ResolveMinutes_NoCarry(today, minute) ==
    Ok(WithTime(today, HourOf(today), minute, SecondOf(today)))

\* The "XX:MM" branch: minute MM of today's hour, or of the next hour when
\* that lies before today.
ResolveMinutes(today, minute) ==
    LET same == WithTime(today, HourOf(today), minute, SecondOf(today))
        later == today + SecondsPerHour
    IN  IF same < today
        THEN Ok(WithTime(later, HourOf(later), minute, SecondOf(later)))
        ELSE Ok(same)

\* utils.date_option_to_datetime(today, string)
date_option_to_datetime(today, string) ==
    IF PrefixMatch(string, DateSecondsPattern) THEN Strptime(string, TRUE)
    ELSE IF PrefixMatch(string, DatePattern) THEN Strptime(string, FALSE)
    ELSE IF PrefixMatch(string, TimeSecondsPattern) THEN
        LET f == SplitInts(string, 3)
        IN  IF f.ok
            THEN Replace(today, f.value[1], f.value[2], f.value[3])
            ELSE f
    ELSE IF PrefixMatch(string, TimePattern) THEN
        LET f == SplitInts(string, 2)
        IN  IF f.ok
            THEN Replace(today, f.value[1], f.value[2], SecondOf(today))
            ELSE f
    ELSE IF FullMatch(string, MinutesPattern) THEN
        ResolveMinutes(today, TwoDigits(string, 4))
    ELSE Raise("ValueError")

\* ------------------------------------------------------------------------
\* The repository (pollyxt.PollyXTRepository)
\* ------------------------------------------------------------------------

VARIABLES
    files,              \* the raw files by path: measurement_time, depol_cal_angle
    index,              \* repo.index: rows [timestamp, index, path], sorted by timestamp
    call,               \* the arguments convert_pollyxt_file was called with
    pc,                 \* where the generator stands: "start", "loop", "done", "error"
    error,              \* the exception that ended the generator, "" when none
    measurement_start,  \* locals of convert_pollyxt_file
    measurement_end,
    start_time,
    end_time,
    interval,
    interval_start,
    yields,             \* the tuples handed to the consumer so far, in order, each
                        \* with the window planned and the range fetched for it
    written,            \* the output files created so far, in order of creation
    queried,            \* whether repo.get_calibration_periods() was called
    periods,            \* the calibration periods the second loop has yet to visit
    pending,            \* the calibration files yet to create for the period at hand
    repo_path,          \* what PollyXTRepository was given: "dir", "file" or "missing"
    assembled,          \* the last call of repo.get_pollyxt_file and its outcome
    span,               \* the last call of get_measurement_period and its outcome
    nc,                 \* the last call of a file writer made directly: the
                        \* Dataset it wrote
    parsed,             \* a call of date_option_to_datetime made directly: the
                        \* arguments and the outcome
    server,             \* the measurement on the SCC server: the polls it stays
                        \* in processing for and the outcome it then shows
    measurement,        \* what scc.get_measurement returned last
    timeout_timer,      \* the seconds scc-auto-upload-calibration has slept
    exit_code           \* what its handle() returned, None while it runs

\* The variables of the conversion, and those of the calls made on the
\* repository and on raw tables directly.
planVars == <<call, measurement_start, measurement_end, start_time, end_time,
              interval, interval_start, yields, written, queried, periods, pending>>
repoVars == <<repo_path, assembled, span>>
outVars == <<nc>>
cmdVars == <<parsed, server, measurement, timeout_timer, exit_code>>
vars == <<files, index, pc, error, planVars, repoVars, outVars, cmdVars>>

\* Python's None and a value, for a local that holds one or the other.
None == [none |-> TRUE, value |-> 0]
Some(v) == [none |-> FALSE, value |-> v]
\* An option string that was not passed, and one that was.
NoOption == [given |-> FALSE, str |-> <<>>]
Option(s) == [given |-> TRUE, str |-> s]

\* PollyXTRepository.get_time_period
get_time_period(idx) == <<idx[1].timestamp, idx[Len(idx)].timestamp>>

\* The rows of the index inside [time_start, time_end], both ends included.
Targets(idx, time_start, time_end) ==
    SelectSeq(idx, LAMBDA r : r.timestamp >= time_start /\ r.timestamp <= time_end)

Min(S) == CHOOSE x \in S : \A y \in S : x <= y
Max(S) == - Min({- x : x \in S})

\* targets["path"].unique(): the paths in order of first appearance.
UniquePaths(targets) ==
    LET paths == {targets[k].path : k \in 1..Len(targets)}
        first(p) == CHOOSE k \in 1..Len(targets) :
                        /\ targets[k].path = p
                        /\ \A j \in 1..(k - 1) : targets[j].path # p
        rank(p) == Cardinality({q \in paths : first(q) <= first(p)})
    IN  [i \in 1..Cardinality(paths) |-> CHOOSE p \in paths : rank(p) = i]

\* The timestamp of row i of the raw file at path (measurement_time[i] decoded):
\* the index holds every row of every file.
RowTime(idx, path, i) ==
    LET k == CHOOSE k \in 1..Len(idx) : idx[k].path = path /\ idx[k].index = i
    IN  idx[k].timestamp

\* PollyXTFile(path, start=start_index, end=end_index): the rows
\* start_index..end_index of one raw file, with the dates of the first and
\* the last of them.
PollyXTFile(idx, path, start_index, end_index) ==
    [path |-> path, start_index |-> start_index, end_index |-> end_index,
     start_date |-> RowTime(idx, path, start_index),
     end_date |-> RowTime(idx, path, end_index)]

\* PollyXTRepository.get_pollyxt_file(time_start, time_end): the first file's
\* object with the arrays of all files concatenated and the last file's
\* end_date; NoMeasurementsInTimePeriod when no row is in the range.
get_pollyxt_file(idx, time_start, time_end) ==
    LET targets == Targets(idx, time_start, time_end)
        paths == UniquePaths(targets)
        rows(p) == {targets[k].index : k \in {j \in 1..Len(targets) : targets[j].path = p}}
        polly_files == [i \in 1..Len(paths) |->
                           PollyXTFile(idx, paths[i], Min(rows(paths[i])), Max(rows(paths[i])))]
    IN  IF Len(targets) = 0
        THEN Raise("NoMeasurementsInTimePeriod")
        ELSE Ok([start_date |-> polly_files[1].start_date,
                 end_date |-> polly_files[Len(polly_files)].end_date,
                 parts |-> polly_files])

\* The measurement_time table of an assembled file: the rows of its parts,
\* concatenated.
RECURSIVE ConcatTimes(_, _, _)
ConcatTimes(idx, parts, i) ==
    IF i > Len(parts) THEN <<>>
    ELSE [k \in 1..(parts[i].end_index - parts[i].start_index + 1) |->
             RowTime(idx, parts[i].path, parts[i].start_index + k - 1)]
         \o ConcatTimes(idx, parts, i + 1)
MeasurementTime(idx, pf) == ConcatTimes(idx, pf.parts, 1)

\* The depol_cal_angle vector of an assembled file: PollyXTFile reads the
\* whole vector of its raw file, untrimmed, and get_pollyxt_file
\* concatenates the vectors of the parts.
RECURSIVE ConcatAngles(_, _, _)
ConcatAngles(fs, parts, i) ==
    IF i > Len(parts) THEN <<>>
    ELSE fs[parts[i].path].depol_cal_angle \o ConcatAngles(fs, parts, i + 1)
DepolCalAngle(fs, pf) == ConcatAngles(fs, pf.parts, 1)

\* The daily wall-clock calibration periods, <<hour, minute>> of start and end.
CalibrationClock ==
    << <<2, 31, 2, 41>>, <<17, 31, 17, 41>>, <<21, 31, 21, 41>> >>

\* The same as seconds since midnight.
CalibrationSeconds ==
    [i \in 1..Len(CalibrationClock) |->
        <<CalibrationClock[i][1] * SecondsPerHour + CalibrationClock[i][2] * SecondsPerMinute,
          CalibrationClock[i][3] * SecondsPerHour + CalibrationClock[i][4] * SecondsPerMinute>>]

\* The daily periods of every day the repository touches, in time order.
DailyPeriods(idx) ==
    LET period == get_time_period(idx)
        first_day == DateOf(period[1])
        days == (DateOf(period[2]) - first_day) \div SecondsPerDay + 1
        candidate(i) ==
            LET day == first_day + ((i - 1) \div Len(CalibrationClock)) * SecondsPerDay
                c == CalibrationClock[((i - 1) % Len(CalibrationClock)) + 1]
            IN  <<WithTime(day, c[1], c[2], 0), WithTime(day, c[3], c[4], 0)>>
    IN  [i \in 1..(days * Len(CalibrationClock)) |-> candidate(i)]

\* PollyXTRepository.get_calibration_periods(): the daily periods that lie
\* fully inside the span of the repository, bounds included.
get_calibration_periods(idx) ==
    LET period == get_time_period(idx)
    IN  SelectSeq(DailyPeriods(idx), LAMBDA p : period[1] <= p[1] /\ p[2] <= period[2])

\* ------------------------------------------------------------------------
\* The emitter (scc_netcdf.create_scc_netcdf)
\* ------------------------------------------------------------------------

\* The calendar fields of a datetime, as datetime keeps them (the inverse of
\* MakeDatetime).
YearOf(t) ==
    LET ord == EpochOrdinal + DateOf(t) \div SecondsPerDay
    IN  CHOOSE y \in 2019..2023 : Ordinal(y, 1, 1) <= ord /\ ord < Ordinal(y + 1, 1, 1)
MonthOf(t) ==
    LET ord == EpochOrdinal + DateOf(t) \div SecondsPerDay
        y == YearOf(t)
    IN  CHOOSE m \in 1..12 :
            Ordinal(y, m, 1) <= ord /\ ord < Ordinal(y, m, 1) + DaysInMonth(y, m)
DayOf(t) ==
    EpochOrdinal + DateOf(t) \div SecondsPerDay - Ordinal(YearOf(t), MonthOf(t), 1) + 1

\* A number as strftime prints a field: decimal, zero-padded to `width' digits.
RECURSIVE Padded(_, _)
Padded(n, width) ==
    IF width = 0 THEN <<>>
    ELSE Padded(n \div 10, width - 1) \o <<DigitChars[(n % 10) + 1]>>

\* pf.start_date.strftime("%Y%m%d") and the "%H", "%M" fields.
DateStamp(t) == Padded(YearOf(t), 4) \o Padded(MonthOf(t), 2) \o Padded(DayOf(t), 2)

\* pf.start_date.strftime(f"%Y%m%d{location.scc_code}%H%M"): the date, the
\* station code, the hour and the minute of the first row; seconds are
\* dropped.
measurement_id(start_date, scc_code) ==
    DateStamp(start_date) \o scc_code
        \o Padded(HourOf(start_date), 2) \o Padded(MinuteOf(start_date), 2)

\* f"{measurement_id}.nc", the name of a regular output file.
output_filename(id) == id \o <<".", "n", "c">>

\* str() of a natural number.
RECURSIVE Decimal(_)
Decimal(n) ==
    IF n < 10 THEN <<DigitChars[n + 1]>>
    ELSE Decimal(n \div 10) \o <<DigitChars[(n % 10) + 1]>>

\* The wavelengths, in the order of the dictionary has_depol_channels builds.
Wavelengths == <<355, 532, 1064>>

\* location.has_depol_channels(), as the wavelengths whose entry is true.
has_depol_channels(location) ==
    SelectSeq(Wavelengths, LAMBDA wv : wv \in location.depol_channels)

\* The first profile of the +45 degree cycle and the profiles kept clear
\* around a turn of the polarizer.
StartPositive == 2
TurnMargin == 4
CycleMargin == 3

\* np.where(np.diff(pf.depol_cal_angle))[0]: the 0-based positions after
\* which the angle changes.
Transitions(angle) ==
    {i \in 0..(Len(angle) - 2) : angle[i + 2] # angle[i + 1]}

\* The +45 and -45 degree cycles create_scc_calibration_netcdf cuts out of
\* the angle vector, trimmed to the shorter of the two: IndexError when the
\* angle never changes at or after profile StartPositive + TurnMargin, and
\* no dimension can be created with a negative length.
CalibrationCycles(angle) ==
    LET idx == {x \in Transitions(angle) : x >= StartPositive + TurnMargin}
        end_positive == Min(idx)
        positive_length == end_positive - StartPositive
        start_negative == end_positive + CycleMargin
        end_negative == Len(angle) - CycleMargin
        negative_length == end_negative - start_negative
        length == IF positive_length > negative_length
                  THEN negative_length ELSE positive_length
    IN  IF idx = {} THEN Raise("IndexError")
        ELSE IF length < 0 THEN Raise("OverflowError")
        ELSE Ok([time |-> length,
                 start_positive |-> StartPositive,
                 end_positive |-> StartPositive + length,
                 start_negative |-> start_negative,
                 end_negative |-> start_negative + length])

\* pf.start_date.strftime(f"%Y%m%d{location.scc_code}%H"): the date, the
\* station code and the hour of the first row.
calibration_id(start_date, scc_code) ==
    DateStamp(start_date) \o scc_code \o Padded(HourOf(start_date), 2)

\* f"calibration_{measurement_id}_{int(wavelength)}.nc"
calibration_filename(id, wavelength) ==
    <<"c", "a", "l", "i", "b", "r", "a", "t", "i", "o", "n", "_">> \o id
        \o <<"_">> \o Decimal(wavelength) \o <<".", "n", "c">>

\* ------------------------------------------------------------------------
\* The planner (scc_netcdf.convert_pollyxt_file), a generator
\* ------------------------------------------------------------------------

Locals(err, ms, me, st, et, iv) ==
    [error |-> err, measurement_start |-> ms, measurement_end |-> me,
     start_time |-> st, end_time |-> et, interval |-> iv]

\* StartOutside without the comparison against the last row.
StartOutside_NoUpper(file_start, file_end, st) == st < file_start

\* The range checks of the start and of the end option.
StartOutside(file_start, file_end, st) == st < file_start \/ file_end < st
EndOutside(ms, file_end, st, et) == et < ms \/ file_end < st

\* The statements before the loop: the repository's period, then the start
\* and end options.  The result holds the exception raised ("" when none) and
\* the locals as the loop finds them.
Validate(idx, c) ==
    LET period == get_time_period(idx)
        failed(e) == Locals(e, period[1], period[2], None, None, c.interval)
        st == date_option_to_datetime(period[1], c.start_time.str)
        \* measurement_start after the start option was handled
        ms == IF c.start_time.given THEN st.value ELSE period[1]
        et == date_option_to_datetime(period[2], c.end_time.str)
    IN  IF c.start_time.given /\ ~st.ok THEN failed(st.value)
        ELSE IF c.start_time.given /\ StartOutside(period[1], period[2], st.value)
        THEN failed("TimeOutsideFile")
        ELSE IF ~c.start_time.given /\ c.end_time.given THEN failed("ValueError")
        ELSE IF ~c.end_time.given
        THEN Locals("", ms, period[2],
                    IF c.start_time.given THEN Some(st.value) ELSE None,
                    None, c.interval)
        ELSE IF ~et.ok THEN failed(et.value)
        ELSE IF EndOutside(ms, period[2], st.value, et.value)
        THEN failed("TimeOutsideFile")
        ELSE Locals("", ms, et.value, Some(st.value), Some(et.value),
                    et.value - st.value)

\* The first call of next(): the statements up to the loop.
Start ==
    /\ pc = "start"
    /\ LET v == Validate(index, call)
       IN  /\ error' = v.error
           /\ pc' = IF v.error = "" THEN "loop" ELSE "error"
           /\ measurement_start' = v.measurement_start
           /\ measurement_end' = v.measurement_end
           /\ start_time' = v.start_time
           /\ end_time' = v.end_time
           /\ interval' = v.interval
           /\ interval_start' = v.measurement_start
    /\ UNCHANGED <<files, index, call, yields, written, queried, periods, pending>>
    /\ UNCHANGED <<repoVars, outVars, cmdVars>>

\* LoopCondition with <= for <.
LoopCondition_Inclusive == interval_start <= measurement_end

\* The loop's condition.
LoopCondition == interval_start < measurement_end

\* One pass of the loop body: the window it plans and the range it fetches.
WindowStart ==
    IF call.should_round THEN FloorHour(interval_start) ELSE interval_start
WindowEnd == WindowStart + interval
\* FetchEnd with the sample period taken off instead of added.
FetchEnd_Short == WindowEnd - SamplePeriod
FetchEnd == WindowEnd + SamplePeriod
Fetched == get_pollyxt_file(index, WindowStart, FetchEnd)

\* A pass whose range holds rows: the file is created and the tuple yielded;
\* the consumer's next call moves interval_start on.
EmitWindow ==
    /\ pc = "loop"
    /\ LoopCondition
    /\ Len(yields) < MaxYield
    /\ Fetched.ok
    /\ LET pf == Fetched.value
           id == measurement_id(pf.start_date, call.location.scc_code)
       IN  /\ written' = Append(written, output_filename(id))
           /\ yields' = Append(yields,
                  [kind |-> "regular", id |-> id,
                   start_date |-> pf.start_date, end_date |-> pf.end_date,
                   interval_start |-> WindowStart, interval_end |-> WindowEnd,
                   time_start |-> WindowStart, time_end |-> FetchEnd])
    /\ interval_start' = WindowEnd
    /\ UNCHANGED <<files, index, call, pc, error, measurement_start, measurement_end,
                   start_time, end_time, interval, queried, periods, pending>>
    /\ UNCHANGED <<repoVars, outVars, cmdVars>>

\* A pass whose range holds no row: NoMeasurementsInTimePeriod is caught and
\* the loop goes on with the next window.
SkipWindow ==
    /\ pc = "loop"
    /\ LoopCondition
    /\ ~Fetched.ok
    /\ interval_start' = WindowEnd
    /\ UNCHANGED <<files, index, call, pc, error, measurement_start, measurement_end,
                   start_time, end_time, interval, yields, written,
                   queried, periods, pending>>
    /\ UNCHANGED <<repoVars, outVars, cmdVars>>

\* CalibrationRequested with the flag ignored.
CalibrationRequested_Always == TRUE

\* `if calibration:'
CalibrationRequested == call.calibration

\* The loop's condition fails; with calibration off the generator is exhausted.
Finish ==
    /\ pc = "loop"
    /\ ~LoopCondition
    /\ ~CalibrationRequested
    /\ pc' = "done"
    /\ UNCHANGED <<files, index, call, error, measurement_start, measurement_end,
                   start_time, end_time, interval, interval_start, yields, written,
                   queried, periods, pending>>
    /\ UNCHANGED <<repoVars, outVars, cmdVars>>

\* The loop's condition fails and calibration is on: the depolarization
\* channels of the location are looked up and the calibration periods of the
\* repository queried.
BeginCalibration ==
    /\ pc = "loop"
    /\ ~LoopCondition
    /\ CalibrationRequested
    /\ pc' = "calibration"
    /\ queried' = TRUE
    /\ periods' = get_calibration_periods(index)
    /\ UNCHANGED <<files, index, call, error, measurement_start, measurement_end,
                   start_time, end_time, interval, interval_start, yields, written,
                   pending>>
    /\ UNCHANGED <<repoVars, outVars, cmdVars>>

\* `if start > measurement_start and end < measurement_end'
ValidPeriod(p) == p[1] > measurement_start /\ p[2] < measurement_end

\* The second loop takes a period that fails its test: nothing is done.
SkipCalibrationPeriod ==
    /\ pc = "calibration"
    /\ pending = <<>>
    /\ periods # <<>>
    /\ ~ValidPeriod(Head(periods))
    /\ periods' = Tail(periods)
    /\ UNCHANGED <<files, index, call, pc, error, measurement_start, measurement_end,
                   start_time, end_time, interval, interval_start, yields, written,
                   queried, pending>>
    /\ UNCHANGED <<repoVars, outVars, cmdVars>>

\* The rows the second loop fetches for the period it takes.
CalibrationFetched == get_pollyxt_file(index, Head(periods)[1], Head(periods)[2])

\* The second loop takes a period that passes its test and holds rows: one
\* calibration file is due for every wavelength with depolarization channels.
FetchCalibrationPeriod ==
    /\ pc = "calibration"
    /\ pending = <<>>
    /\ periods # <<>>
    /\ ValidPeriod(Head(periods))
    /\ CalibrationFetched.ok
    /\ LET depol_channels == has_depol_channels(call.location)
           pf == CalibrationFetched.value
       IN  pending' = [i \in 1..Len(depol_channels) |->
                          [wavelength |-> depol_channels[i],
                           start |-> Head(periods)[1], end |-> Head(periods)[2],
                           start_date |-> pf.start_date,
                           depol_cal_angle |-> DepolCalAngle(files, pf)]]
    /\ periods' = Tail(periods)
    /\ UNCHANGED <<files, index, call, pc, error, measurement_start, measurement_end,
                   start_time, end_time, interval, interval_start, yields, written,
                   queried>>
    /\ UNCHANGED <<repoVars, outVars, cmdVars>>

\* The second loop takes a period that passes its test and holds no row:
\* nothing catches the NoMeasurementsInTimePeriod of get_pollyxt_file.
CalibrationFetchFails ==
    /\ pc = "calibration"
    /\ pending = <<>>
    /\ periods # <<>>
    /\ ValidPeriod(Head(periods))
    /\ ~CalibrationFetched.ok
    /\ pc' = "error"
    /\ error' = CalibrationFetched.value
    /\ UNCHANGED <<files, index, call, measurement_start, measurement_end,
                   start_time, end_time, interval, interval_start, yields, written,
                   queried, periods, pending>>
    /\ UNCHANGED <<repoVars, outVars, cmdVars>>

\* create_scc_calibration_netcdf for the next wavelength: the file is
\* created, then the cycles are cut out of the angle vector; the tuple is
\* yielded when that succeeds.
EmitCalibration ==
    /\ pc = "calibration"
    /\ pending # <<>>
    /\ Len(yields) < MaxYield
    /\ LET job == Head(pending)
           id == calibration_id(job.start_date, call.location.scc_code)
           cycles == CalibrationCycles(job.depol_cal_angle)
       IN  /\ written' = Append(written, calibration_filename(id, job.wavelength))
           /\ IF cycles.ok
              THEN /\ yields' = Append(yields,
                          [kind |-> "calibration", id |-> id,
                           start_date |-> job.start, end_date |-> job.end,
                           interval_start |-> job.start, interval_end |-> job.end,
                           time_start |-> job.start, time_end |-> job.end])
                   /\ pending' = Tail(pending)
                   /\ UNCHANGED <<pc, error>>
              ELSE /\ pc' = "error"
                   /\ error' = cycles.value
                   /\ UNCHANGED <<yields, pending>>
    /\ UNCHANGED <<files, index, call, measurement_start, measurement_end,
                   start_time, end_time, interval, interval_start, queried, periods>>
    /\ UNCHANGED <<repoVars, outVars, cmdVars>>

\* No period and no file is left: the generator is exhausted.
FinishCalibration ==
    /\ pc = "calibration"
    /\ pending = <<>>
    /\ periods = <<>>
    /\ pc' = "done"
    /\ UNCHANGED <<files, index, call, error, measurement_start, measurement_end,
                   start_time, end_time, interval, interval_start, yields, written,
                   queried, periods, pending>>
    /\ UNCHANGED <<repoVars, outVars, cmdVars>>

\* ------------------------------------------------------------------------
\* Repositories and calls the model explores
\* ------------------------------------------------------------------------

\* The index of a repository of n rows, one every SamplePeriod from `first',
\* with gapLen sample periods missing before row gapFrom, the rows from row
\* `split' on stored in a second raw file.  Built from time-ordered files,
\* the index is sorted as __init__ leaves it.
Repository(first, n, gapFrom, gapLen, split) ==
    [k \in 1..n |->
        [timestamp |-> first + SamplePeriod *
                          ((k - 1) + (IF k - 1 >= gapFrom THEN gapLen ELSE 0)),
         index |-> IF k - 1 < split THEN k - 1 ELSE k - 1 - split,
         path |-> IF k - 1 < split THEN 1 ELSE 2]]

\* polly_date_to_datetime read backwards: the day code YYYYMMDD and the
\* seconds since the start of the day the instrument writes for the time t.
DayCode(t) == YearOf(t) * 10000 + MonthOf(t) * 100 + DayOf(t)
\* The calibration angle of the instrument at the time t: when the
\* instrument calibrates (cycle), the polarizer stands at +45 degrees in the
\* first half of every daily calibration period and at -45 in the rest of
\* it; at 0 otherwise.
AngleAt(t, cycle) ==
    LET tod == t % SecondsPerDay
        hit == {i \in 1..Len(CalibrationSeconds) :
                   CalibrationSeconds[i][1] <= tod /\ tod <= CalibrationSeconds[i][2]}
    IN  IF ~cycle \/ hit = {} THEN 0
        ELSE LET c == CalibrationSeconds[CHOOSE i \in hit : TRUE]
             IN  IF 2 * tod < c[1] + c[2] THEN 45 ELSE -45

\* The signal the instrument records at the time t (one number stands for
\* the profile of all channels), and the laser shots of a sample.
SignalAt(t) == (t \div SamplePeriod) % 7
LaserShots == 600

\* The raw files behind an index built from time-ordered files: file `path'
\* holds the rows of the index with that path, in their order.  The day
\* codes are those of the first and of the last row's day.
RawRow(r, day_first, code_first, code_last, cycle) ==
    [measurement_time |->
         <<IF DateOf(r.timestamp) = day_first THEN code_first ELSE code_last,
           r.timestamp % SecondsPerDay>>,
     depol_cal_angle |-> AngleAt(r.timestamp, cycle),
     raw_signal |-> SignalAt(r.timestamp),
     measurement_shots |-> LaserShots]
RawFile(rows) ==
    [measurement_time |-> [i \in 1..Len(rows) |-> rows[i].measurement_time],
     depol_cal_angle |-> [i \in 1..Len(rows) |-> rows[i].depol_cal_angle],
     raw_signal |-> [i \in 1..Len(rows) |-> rows[i].raw_signal],
     measurement_shots |-> [i \in 1..Len(rows) |-> rows[i].measurement_shots]]
RawFiles(idx, cycle) ==
    LET day_first == DateOf(idx[1].timestamp)
        code_first == DayCode(idx[1].timestamp)
        code_last == DayCode(idx[Len(idx)].timestamp)
        raw == [k \in 1..Len(idx) |->
                   RawRow(idx[k], day_first, code_first, code_last, cycle)]
        split == Cardinality({k \in 1..Len(idx) : idx[k].path = 1})
    IN  IF split = Len(idx)
        THEN <<RawFile(raw)>>
        ELSE <<RawFile(SubSeq(raw, 1, split)), RawFile(SubSeq(raw, split + 1, Len(raw)))>>

\* The station of the calls: a three-letter SCC code; no wavelength has
\* depolarization channels configured.
Station == [scc_code |-> <<"a", "k", "y">>, depol_channels |-> {}]

\* Times of the first row.
Starts ==
    {MakeDatetime(2021, 1, 1, 0, 0, 0), MakeDatetime(2021, 1, 1, 1, 50, 0),
     MakeDatetime(2021, 1, 1, 0, 12, 30), MakeDatetime(2021, 1, 1, 23, 10, 0)}

\* Cadences, in seconds.
Intervals == {45, 5 * 60, 25 * 60, 60 * 60, 90 * 60}

\* Lengths of the gap, in sample periods, and the first rows and cadences of
\* the repositories with a gap.
GapLens == {21, 130}
GapStarts == {MakeDatetime(2021, 1, 1, 0, 0, 0), MakeDatetime(2021, 1, 1, 0, 12, 30)}
GapIntervals == {5 * 60, 60 * 60}

StartOptions ==
    {<<"X","X",":","3","0">>, <<"X","X",":","0","0">>, <<"X","X",":","5","5">>,
     <<"0","2",":","0","0">>, <<"0","0",":","0","5">>, <<"2","3",":","3","0">>,
     <<"0","2",":","1","0",":","3","0">>, <<"2","6",":","0","0">>,
     <<"2","0","2","1","-","0","1","-","0","1","_","0","2",":","3","0">>,
     <<"2","0","2","1","-","0","1","-","0","2","_","0","0",":","0","0",":","3","0">>,
     <<"2","0","2","0","-","1","2","-","3","1","_","2","3",":","0","0">>}
EndOptions ==
    {<<"X","X",":","4","5">>, <<"0","2",":","4","0">>, <<"0","0",":","1","0">>,
     <<"2","0","2","1","-","0","1","-","0","1","_","0","3",":","3","0">>,
     <<"2","0","2","1","-","0","1","-","0","2","_","0","0",":","1","0">>}

\* Numbers of rows of the repositories the start/end options are tried on.
OptionSizes == {1, 2, 81, MaxSamples}

\* No call of get_pollyxt_file, or of get_measurement_period, was made yet.
NoFetch == [called |-> FALSE, time_start |-> 0, time_end |-> 0, result |-> Raise("")]
NoSpan == [called |-> FALSE, table |-> <<>>, result |-> Raise("")]
\* No call of a file writer was made directly.
NoDataset == [called |-> FALSE, result |-> Raise("")]
\* No call of date_option_to_datetime was made directly.
NoParse == [called |-> FALSE, today |-> 0, string |-> <<>>, result |-> Raise("")]
\* No measurement was uploaded and none was looked up.
NoServer == [processing |-> 0, found |-> FALSE]
NoMeasurement == [none |-> TRUE, is_processing |-> FALSE, eldec |-> None]
\* No command runs.
InitCommands ==
    /\ parsed = NoParse
    /\ server = NoServer
    /\ measurement = NoMeasurement
    /\ timeout_timer = 0
    /\ exit_code = None

InitLocals ==
    /\ error = ""
    /\ measurement_start = 0
    /\ measurement_end = 0
    /\ start_time = None
    /\ end_time = None
    /\ interval = 0
    /\ interval_start = 0
    /\ yields = <<>>
    /\ written = <<>>
    /\ queried = FALSE
    /\ periods = <<>>
    /\ pending = <<>>
    /\ assembled = NoFetch
    /\ span = NoSpan
    /\ nc = NoDataset

\* A call without start/end options on a repository without gap.
InitPlain ==
    \E first \in Starts, n \in 1..MaxSamples, iv \in Intervals, round \in BOOLEAN :
        /\ index = Repository(first, n, n, 0, n)
        /\ files = RawFiles(index, TRUE)
        /\ call = [interval |-> iv, should_round |-> round, calibration |-> FALSE,
                   location |-> Station,
                   start_time |-> NoOption, end_time |-> NoOption]

\* A call without start/end options on a repository with one gap, in the
\* middle of its rows.
InitGap ==
    \E first \in GapStarts, n \in 2..MaxSamples, gapLen \in GapLens,
       iv \in GapIntervals, round \in BOOLEAN :
        /\ index = Repository(first, n, n \div 2, gapLen, n)
        /\ files = RawFiles(index, TRUE)
        /\ call = [interval |-> iv, should_round |-> round, calibration |-> FALSE,
                   location |-> Station,
                   start_time |-> NoOption, end_time |-> NoOption]

\* A call with a start option, and possibly an end option, on a repository
\* without gap, in one raw file or two.
InitOptions ==
    \E first \in Starts, n \in OptionSizes, split \in BOOLEAN,
       iv \in {5 * 60, 60 * 60}, round \in BOOLEAN,
       st \in {Option(o) : o \in StartOptions} \cup {NoOption},
       et \in {Option(o) : o \in EndOptions} \cup {NoOption} :
        /\ st.given \/ et.given
        /\ split => n >= 2
        /\ index = Repository(first, n, n, 0, IF split THEN n \div 2 ELSE n)
        /\ files = RawFiles(index, TRUE)
        /\ call = [interval |-> iv, should_round |-> round, calibration |-> FALSE,
                   location |-> Station, start_time |-> st, end_time |-> et]

\* The two-hour repository of 2021-01-01: a row every SamplePeriod from
\* 00:00:00 to 02:00:00, in one raw file or in two, converted hour by hour
\* with rounding.
ScenarioRows == (2 * SecondsPerHour) \div SamplePeriod + 1
InitScenario ==
    \E split \in {ScenarioRows \div 2, ScenarioRows} :
        /\ index = Repository(MakeDatetime(2021, 1, 1, 0, 0, 0), ScenarioRows,
                              ScenarioRows, 0, split)
        /\ files = RawFiles(index, TRUE)
        /\ call = [interval |-> SecondsPerHour, should_round |-> TRUE,
                   calibration |-> FALSE, location |-> Station,
                   start_time |-> NoOption, end_time |-> NoOption]

\* Repositories around the calibration period of 02:31-02:41: first rows,
\* numbers of rows, and gaps <<first missing row, missing sample periods>>
\* (none; the rows of the period missing; fifteen hours missing, so that
\* the rows reach over the period of 17:31-17:41 as well).
CalibrationStarts ==
    {MakeDatetime(2021, 1, 1, 2, 31, 0), MakeDatetime(2021, 1, 1, 2, 30, 30),
     MakeDatetime(2021, 1, 1, 2, 20, 0)}
CalibrationSizes == {21, 23, MaxSamples}
CalibrationGaps == {<<0, 0>>, <<1, 22>>, <<22, 22>>, <<60, 1750>>}
\* A station with depolarization channels for two wavelengths.
DepolStation == [scc_code |-> <<"a", "k", "y">>, depol_channels |-> {355, 532}]

\* A call with calibration on or off, with or without a start option, on a
\* repository around a calibration period, of an instrument that turned its
\* polarizer in the period or did not.
InitCalibration ==
    \E first \in CalibrationStarts, n \in CalibrationSizes, gap \in CalibrationGaps,
       split \in BOOLEAN, cycle \in BOOLEAN, calibration \in BOOLEAN,
       location \in {Station, DepolStation},
       st \in {NoOption, Option(<<"0", "2", ":", "3", "5">>)} :
        /\ gap[1] < n
        /\ index = Repository(first, n, gap[1], gap[2], IF split THEN n \div 2 ELSE n)
        /\ files = RawFiles(index, cycle)
        /\ call = [interval |-> SecondsPerHour, should_round |-> FALSE,
                   calibration |-> calibration, location |-> location,
                   start_time |-> st, end_time |-> NoOption]

\* The repository of a conversion was built from a directory; the generator
\* has not been started.
Init ==
    /\ InitLocals
    /\ InitCommands
    /\ pc = "start"
    /\ repo_path = "dir"
    /\ InitPlain \/ InitGap \/ InitOptions \/ InitScenario \/ InitCalibration

Next ==
    \/ Start
    \/ EmitWindow
    \/ SkipWindow
    \/ Finish
    \/ BeginCalibration
    \/ SkipCalibrationPeriod
    \/ FetchCalibrationPeriod
    \/ CalibrationFetchFails
    \/ EmitCalibration
    \/ FinishCalibration

Spec == Init /\ [][Next]_vars

\* ------------------------------------------------------------------------
\* Building a repository and reading from it (pollyxt.py)
\* ------------------------------------------------------------------------

\* polly_date_to_datetime(<<day, seconds>>) for a day code of eight digits:
\* strptime(str(day), "%Y%m%d") raises ValueError unless the digits spell a
\* calendar date; the seconds are added to its midnight.
polly_date_to_datetime(timestamp) ==
    LET day == timestamp[1]
        y == day \div 10000
        m == (day \div 100) % 100
        d == day % 100
    IN  IF m \in 1..12 /\ d >= 1 /\ d <= DaysInMonth(y, m)
        THEN Ok(MakeDatetime(y, m, d, 0, 0, 0) + timestamp[2])
        ELSE Raise("ValueError")

\* get_measurement_period(measurement_time) on a table: the day of the first
\* row is parsed, and the seconds of the first and of the last row are added
\* to that one date.  IndexError on a table without rows.
get_measurement_period(measurement_time) ==
    IF Len(measurement_time) = 0 THEN Raise("IndexError")
    ELSE LET date == polly_date_to_datetime(<<measurement_time[1][1], 0>>)
         IN  IF ~date.ok THEN date
             ELSE Ok(<<date.value + measurement_time[1][2],
                       date.value + measurement_time[Len(measurement_time)][2]>>)

\* super(self) in NoFilesFound.__init__: the one-argument form wants a type
\* and is given the instance.
Super(is_type) == IF is_type THEN Ok("super") ELSE Raise("TypeError")

\* NoFilesFound(path): the exception object, when its __init__ returns.
NoFilesFound(p) ==
    LET s == Super(FALSE)
    IN  IF s.ok THEN Ok("NoFilesFound") ELSE s

\* The rows of every file with one row kept for every timestamp.
IndexRows_Deduplicated(fs) ==
    LET rows == UNION {{[timestamp |-> polly_date_to_datetime(fs[f].measurement_time[i + 1]).value,
                         index |-> i, path |-> f] :
                           i \in 0..(Len(fs[f].measurement_time) - 1)} :
                       f \in 1..Len(fs)}
    IN  {r \in rows :
            ~\E q \in rows :
                /\ q.timestamp = r.timestamp
                /\ (q.path < r.path \/ (q.path = r.path /\ q.index < r.index))}

\* The rows __init__ collects: one per row of every file, with the decoded
\* timestamp, the row number and the file.
IndexRows(fs) ==
    UNION {{[timestamp |-> polly_date_to_datetime(fs[f].measurement_time[i + 1]).value,
             index |-> i, path |-> f] :
               i \in 0..(Len(fs[f].measurement_time) - 1)} :
           f \in 1..Len(fs)}

\* The orders sort_values("timestamp") may leave a set of rows in: ascending
\* by timestamp, rows of equal timestamp in any order.
RECURSIVE SortedOrders(_)
SortedOrders(rows) ==
    IF rows = {} THEN {<<>>}
    ELSE UNION {{<<r>> \o rest : rest \in SortedOrders(rows \ {r})} :
                   r \in {r \in rows : \A q \in rows : r.timestamp <= q.timestamp}}

\* The exception PollyXTRepository(path) ends with, "" when it returns: the
\* path is neither directory nor file; no file was found (the exception
\* raised is what NoFilesFound(path) gives); a row does not decode; no file
\* has a row, and the empty table has no "timestamp" column to sort by.
ConstructionError(kind, fs) ==
    IF kind = "missing" THEN "ValueError"
    ELSE IF Len(fs) = 0
    THEN NoFilesFound(kind).value
    ELSE IF \E f \in 1..Len(fs) : \E i \in 1..Len(fs[f].measurement_time) :
                ~polly_date_to_datetime(fs[f].measurement_time[i]).ok
    THEN "BadMeasurementTime"
    ELSE IF \A f \in 1..Len(fs) : Len(fs[f].measurement_time) = 0
    THEN "KeyError"
    ELSE ""

\* Slice with the last row left out.
Slice_Exclusive(array, start, end) == SubSeq(array, start + 1, end)

\* array[start : end + 1], rows counted from 0.
Slice(array, start, end) == SubSeq(array, start + 1, end + 1)

\* np.nan among the signals of the model, which are natural numbers.
NaN == -1

\* `if nan_calibration:' in PollyXTFile.__init__: the rows from the first to
\* the last non-zero angle (the last one excluded) are compared with nan and
\* the outcome of the comparison is dropped; the signal stays as read.
nan_calibration(raw_signal, depol_cal_angle) ==
    LET depol_cal_time == {i \in 0..(Len(depol_cal_angle) - 1) : depol_cal_angle[i + 1] # 0}
        compared == IF depol_cal_time = {} THEN <<>>
                    ELSE [i \in 1..Len(Slice(raw_signal, Min(depol_cal_time),
                                              Max(depol_cal_time) - 1)) |-> FALSE]
    IN  raw_signal

\* The arrays PollyXTFile(path, start, end) reads: time, signal and shots
\* are trimmed to the rows start..end, the calibration angle is not.
PartArrays(fs, part) ==
    LET f == fs[part.path]
    IN  [measurement_time |-> Slice(f.measurement_time, part.start_index, part.end_index),
         raw_signal |->
             nan_calibration(Slice(f.raw_signal, part.start_index, part.end_index),
                             f.depol_cal_angle),
         measurement_shots |-> Slice(f.measurement_shots, part.start_index, part.end_index),
         depol_cal_angle |-> f.depol_cal_angle]

\* np.concatenate
RECURSIVE Concatenate(_, _)
Concatenate(arrays, i) ==
    IF i > Len(arrays) THEN <<>> ELSE arrays[i] \o Concatenate(arrays, i + 1)

\* repo.get_pollyxt_file(time_start, time_end) with the arrays of the file
\* it returns.
Assemble(fs, idx, time_start, time_end) ==
    LET r == get_pollyxt_file(idx, time_start, time_end)
        arrays == [k \in 1..Len(r.value.parts) |-> PartArrays(fs, r.value.parts[k])]
    IN  IF ~r.ok THEN r
        ELSE Ok([start_date |-> r.value.start_date, end_date |-> r.value.end_date,
                 parts |-> r.value.parts,
                 measurement_time |->
                     Concatenate([k \in 1..Len(arrays) |-> arrays[k].measurement_time], 1),
                 raw_signal |->
                     Concatenate([k \in 1..Len(arrays) |-> arrays[k].raw_signal], 1),
                 measurement_shots |->
                     Concatenate([k \in 1..Len(arrays) |-> arrays[k].measurement_shots], 1),
                 depol_cal_angle |->
                     Concatenate([k \in 1..Len(arrays) |-> arrays[k].depol_cal_angle], 1)])

\* PollyXTRepository(path) raises.
ConstructFails ==
    /\ pc = "construct"
    /\ ConstructionError(repo_path, files) # ""
    /\ pc' = "error"
    /\ error' = ConstructionError(repo_path, files)
    /\ UNCHANGED <<files, index, planVars, repoVars, outVars, cmdVars>>

\* PollyXTRepository(path) returns: the index holds the rows of all files,
\* sorted.
Construct ==
    /\ pc = "construct"
    /\ ConstructionError(repo_path, files) = ""
    /\ pc' = "ready"
    /\ \E idx \in SortedOrders(IndexRows(files)) : index' = idx
    /\ UNCHANGED <<files, error, planVars, repoVars, outVars, cmdVars>>

\* The range asked of get_pollyxt_file: from 23:59:00 on, every SamplePeriod.
RequestTimes ==
    {MakeDatetime(2021, 1, 1, 23, 59, 0) + k * SamplePeriod : k \in 0..3}

\* A call of repo.get_pollyxt_file on the repository built.
GetPollyxtFile ==
    /\ pc = "ready"
    /\ pc' = "fetched"
    /\ \E time_start, time_end \in RequestTimes :
           assembled' = [called |-> TRUE, time_start |-> time_start,
                         time_end |-> time_end,
                         result |-> Assemble(files, index, time_start, time_end)]
    /\ UNCHANGED <<files, index, error, planVars, repo_path, span, outVars, cmdVars>>

\* A call of get_measurement_period on the time table of a raw file, no
\* repository built.
GetMeasurementPeriod ==
    /\ pc = "construct"
    /\ pc' = "measured"
    /\ \E f \in 1..Len(files) :
           span' = [called |-> TRUE, table |-> files[f].measurement_time,
                    result |-> get_measurement_period(files[f].measurement_time)]
    /\ UNCHANGED <<files, index, error, planVars, repo_path, assembled, outVars, cmdVars>>

\* Raw files handed to the repository directly: rows around the midnight of
\* 2021-01-02 (23:59:00; midnight written as second 86400 of the first and
\* as second 0 of the second day; 00:00:30) and a row whose day code is no
\* date.
RepoRows ==
    {<<20210101, 86340>>, <<20210101, 86400>>, <<20210102, 0>>, <<20210102, 30>>,
     <<20210132, 0>>}
RepoTables == UNION {[1..n -> RepoRows] : n \in 0..MaxRows}
\* Time tables of a second file of the directory.
SecondTables == {<<>>, <<<<20210102, 0>>>>, << <<20210101, 86340>>, <<20210102, 30>> >>}
\* The calibration angle of row i: never turned, turned for one sample,
\* turned at row 2 and turned back from row 3 on.
AnglePatterns == {"zero", "one", "run"}
PatternAngle(pattern, i) ==
    CASE pattern = "zero" -> 0
      [] pattern = "one" -> IF i = 2 THEN 45 ELSE 0
      [] pattern = "run" -> IF i = 2 THEN 45 ELSE IF i > 2 THEN -45 ELSE 0
\* The raw file number f with the time table given: every row has a signal
\* and a shot count of its own.
RepoFile(f, table, pattern) ==
    [measurement_time |-> table,
     depol_cal_angle |-> [i \in 1..Len(table) |-> PatternAngle(pattern, i)],
     raw_signal |-> [i \in 1..Len(table) |-> 10 * f + i],
     measurement_shots |-> [i \in 1..Len(table) |-> LaserShots + i]]
\* PollyXTRepository is about to be called: on a single file, on a
\* directory of no, one or two files, or on a path that does not exist.
RepoInit ==
    /\ InitLocals
    /\ InitCommands
    /\ pc = "construct"
    /\ index = <<>>
    /\ call = [interval |-> SecondsPerHour, should_round |-> FALSE,
               calibration |-> FALSE, location |-> Station,
               start_time |-> NoOption, end_time |-> NoOption]
    /\ \/ \E table \in RepoTables, pattern \in AnglePatterns :
              /\ repo_path = "file"
              /\ files = <<RepoFile(1, table, pattern)>>
       \/ \E table \in RepoTables :
              /\ repo_path = "dir"
              /\ files = <<RepoFile(1, table, "run")>>
       \/ \E table \in RepoTables, second \in SecondTables :
              /\ repo_path = "dir"
              /\ files = <<RepoFile(1, table, "run"), RepoFile(2, second, "one")>>
       \/ repo_path \in {"dir", "missing"} /\ files = <<>>

RepoNext == ConstructFails \/ Construct \/ GetPollyxtFile \/ GetMeasurementPeriod

RepoSpec == RepoInit /\ [][RepoNext]_vars

\* ------------------------------------------------------------------------
\* Writing the output files (scc_netcdf.create_scc_netcdf and
\* create_scc_calibration_netcdf), called directly
\* ------------------------------------------------------------------------

\* re.match(r"[+-]\d+", string)
OffsetMatch(s) == Len(s) >= 2 /\ s[1] \in {"+", "-"} /\ s[2] \in Digits
\* int(string) of a string that starts with a sign.
SignedInt(s) ==
    LET digits == SubSeq(s, 2, Len(s))
    IN  IF IntValid(digits)
        THEN Ok((IF s[1] = "-" THEN -1 ELSE 1) * IntValue(Strip(digits)))
        ELSE Raise("ValueError")

\* The sunrise (or sunset) create_scc_netcdf compares with: the configured
\* HH:MM put on pf.start_date by replace(hour=, minute=), which keeps the
\* seconds of start_date; or the time the astral library computed for the
\* day, moved by the configured number of minutes.
SunTime(start_date, rule, computed) ==
    IF PrefixMatch(rule, TimePattern)
    THEN LET f == SplitInts(rule, 2)
         IN  IF f.ok
             THEN Replace(start_date, f.value[1], f.value[2], SecondOf(start_date))
             ELSE f
    ELSE IF OffsetMatch(rule)
    THEN LET minutes == SignedInt(rule)
         IN  IF minutes.ok THEN Ok(computed + minutes.value * SecondsPerMinute)
             ELSE minutes
    ELSE Ok(computed)

\* pf.calibration_mask: the rows taken while the polarizer was turned.
calibration_mask(pf) ==
    [i \in 1..Len(pf.measurement_time) |->
        i <= Len(pf.depol_cal_angle) /\ pf.depol_cal_angle[i] # 0]

\* array[~pf.calibration_mask]
Unmasked(pf, array) ==
    LET mask == calibration_mask(pf)
        kept == SelectSeq([i \in 1..Len(array) |-> i], LAMBDA i : ~mask[i])
    IN  [k \in 1..Len(kept) |-> array[kept[k]]]

\* pf.measurement_time[~pf.calibration_mask, 1] - pf.measurement_time[0, 1]
RawDataStartTime(pf) ==
    LET seconds == [i \in 1..Len(pf.measurement_time) |-> pf.measurement_time[i][2]]
        kept == Unmasked(pf, seconds)
    IN  [k \in 1..Len(kept) |-> kept[k] - seconds[1]]

\* create_scc_netcdf(pf, output_path, location): the attributes and the time
\* variables of the file written. astral holds the sunrise and sunset the
\* astral library computes for the day of pf.start_date.
create_scc_netcdf(pf, location, astral) ==
    LET sunrise_time == SunTime(pf.start_date, location.sunrise_time,
                                DateOf(pf.start_date) + astral[1])
        sunset_time == SunTime(pf.start_date, location.sunset_time,
                               DateOf(pf.start_date) + astral[2])
        daytime == sunrise_time.value < pf.start_date
                       /\ pf.start_date < sunset_time.value
        start == RawDataStartTime(pf)
    IN  IF ~sunrise_time.ok THEN sunrise_time
        ELSE IF ~sunset_time.ok THEN sunset_time
        ELSE Ok([Measurement_ID |-> measurement_id(pf.start_date, location.scc_code),
                 Configuration_ID |-> IF daytime THEN location.daytime_configuration
                                      ELSE location.nighttime_configuration,
                 Is_Daytime |-> IF daytime THEN "yes" ELSE "no",
                 Sunrise_time |-> sunrise_time.value,
                 Sunset_time |-> sunset_time.value,
                 Raw_Data_Start_Time |-> start,
                 Raw_Data_Stop_Time |-> [k \in 1..Len(start) |-> start[k] + SamplePeriod]])

\* Sunrise and sunset of the day as the astral library may compute them,
\* in seconds after midnight.
AstralTimes ==
    {<<WithTime(0, 5, 47, 13), WithTime(0, 16, 21, 40)>>,
     <<WithTime(0, 6, 0, 10), WithTime(0, 16, 0, 50)>>}

\* A direct call of create_scc_netcdf on the file get_pollyxt_file returned.
CreateSccNetcdf ==
    /\ pc = "fetched"
    /\ assembled.result.ok
    /\ \E astral \in AstralTimes :
           LET r == create_scc_netcdf(assembled.result.value, call.location, astral)
           IN  /\ nc' = [called |-> TRUE, result |-> r]
               /\ pc' = IF r.ok THEN "created" ELSE "error"
               /\ error' = IF r.ok THEN error ELSE r.value
    /\ UNCHANGED <<files, index, planVars, repoVars, cmdVars>>

\* len(array[start:end]) for an array of n rows and 0 <= start.
SliceLength(start, end, n) ==
    LET stop == IF end < 0 THEN (IF end + n < 0 THEN 0 ELSE end + n)
                ELSE IF end > n THEN n ELSE end
        from == IF start > n THEN n ELSE start
    IN  IF stop > from THEN stop - from ELSE 0

\* create_scc_calibration_netcdf(pf, output_path, location, wavelength): the
\* time dimension of the file written and the numbers of rows of the +45
\* and of the -45 degree slice copied into it.
create_scc_calibration_netcdf(pf, location, wavelength) ==
    LET cycles == CalibrationCycles(pf.depol_cal_angle)
        rows == Len(pf.raw_signal)
    IN  IF ~cycles.ok THEN cycles
        ELSE Ok([Measurement_ID |-> calibration_id(pf.start_date, location.scc_code),
                 output_filename |->
                     calibration_filename(
                         calibration_id(pf.start_date, location.scc_code), wavelength),
                 time |-> cycles.value.time,
                 positive |-> SliceLength(cycles.value.start_positive,
                                          cycles.value.end_positive, rows),
                 negative |-> SliceLength(cycles.value.start_negative,
                                          cycles.value.end_negative, rows)])

\* A direct call of create_scc_calibration_netcdf on the file
\* get_pollyxt_file returned.
CreateSccCalibrationNetcdf ==
    /\ pc = "fetched"
    /\ assembled.result.ok
    /\ \E wavelength \in {355, 532} :
           LET r == create_scc_calibration_netcdf(assembled.result.value,
                                                  call.location, wavelength)
           IN  /\ nc' = [called |-> TRUE, result |-> r]
               /\ pc' = IF r.ok THEN "calibrated" ELSE "error"
               /\ error' = IF r.ok THEN error ELSE r.value
    /\ UNCHANGED <<files, index, planVars, repoVars, cmdVars>>

\* The calibration angle of row i of a file in which the polarizer rests
\* for `before' rows, stands at +45 degrees for `plus' rows, at -45 degrees
\* for `minus' rows and rests again.
CycleAngle(before, plus, minus, i) ==
    IF i <= before THEN 0
    ELSE IF i <= before + plus THEN 45
    ELSE IF i <= before + plus + minus THEN -45
    ELSE 0
\* Numbers of rows before and after the two runs.
RestRows == {0, 1, 3}
\* The time of the first row of the files with runs of the polarizer.
CycleStart == MakeDatetime(2021, 1, 1, 2, 30, 0)

\* Times of the first row of the files written directly.
EmitStarts ==
    {MakeDatetime(2021, 1, 1, 5, 59, 30), MakeDatetime(2021, 1, 1, 6, 0, 0),
     MakeDatetime(2021, 1, 1, 6, 0, 30), MakeDatetime(2021, 1, 1, 6, 1, 0),
     MakeDatetime(2021, 1, 1, 15, 59, 30), MakeDatetime(2021, 1, 1, 16, 0, 0),
     MakeDatetime(2021, 1, 1, 16, 0, 30), MakeDatetime(2021, 1, 1, 23, 59, 30)}
\* The sunrise_time and sunset_time of the locations: a time, a number of
\* minutes, nothing, and a time the pattern lets through with hour 29.
SunriseRules ==
    {<<"0", "6", ":", "0", "0">>, <<"+", "1", "0">>, <<>>, <<"2", "9", ":", "0", "0">>}
SunsetRules == {<<"1", "6", ":", "0", "0">>, <<"-", "1", "0">>, <<>>}
\* A location with the sunrise and sunset rules given.
SunStation(rise, set) ==
    [scc_code |-> <<"a", "k", "y">>, depol_channels |-> {},
     sunrise_time |-> rise, sunset_time |-> set,
     daytime_configuration |-> 1, nighttime_configuration |-> 2]
\* The time table of n rows every SamplePeriod from the time first on.
EmitTable(first, n) ==
    [i \in 1..n |-> <<DayCode(first + (i - 1) * SamplePeriod),
                      (first + (i - 1) * SamplePeriod) % SecondsPerDay>>]

\* get_pollyxt_file has returned the whole of a single raw file, a short one
\* or one with runs of the polarizer, and one of the two writers is about to
\* be called on it.
EmitInit ==
    /\ error = ""
    /\ measurement_start = 0
    /\ measurement_end = 0
    /\ start_time = None
    /\ end_time = None
    /\ interval = 0
    /\ interval_start = 0
    /\ yields = <<>>
    /\ written = <<>>
    /\ queried = FALSE
    /\ periods = <<>>
    /\ pending = <<>>
    /\ span = NoSpan
    /\ nc = NoDataset
    /\ InitCommands
    /\ pc = "fetched"
    /\ repo_path = "file"
    /\ \E first \in EmitStarts \cup {CycleStart}, rise \in SunriseRules,
          set \in SunsetRules :
           /\ \/ /\ first \in EmitStarts
                 /\ \E n \in 1..MaxRows, pattern \in {"zero", "one"} :
                        files = <<RepoFile(1, EmitTable(first, n), pattern)>>
              \/ /\ first = CycleStart
                 /\ rise = <<>> /\ set = <<>>
                 /\ \E before, after \in RestRows, plus, minus \in 0..MaxRun :
                        /\ before + plus + minus + after > 0
                        /\ files = <<[RepoFile(1, EmitTable(first,
                                                  before + plus + minus + after), "zero")
                                      EXCEPT !.depol_cal_angle =
                                          [i \in 1..(before + plus + minus + after) |->
                                              CycleAngle(before, plus, minus, i)]]>>
           /\ LET n == Len(files[1].measurement_time)
                  last == first + (n - 1) * SamplePeriod
              IN  /\ index = [i \in 1..n |->
                                 [timestamp |-> first + (i - 1) * SamplePeriod,
                                  index |-> i - 1, path |-> 1]]
                  /\ assembled = [called |-> TRUE, time_start |-> first,
                                  time_end |-> last,
                                  result |-> Assemble(files, index, first, last)]
           /\ call = [interval |-> SecondsPerHour, should_round |-> FALSE,
                      calibration |-> FALSE, location |-> SunStation(rise, set),
                      start_time |-> NoOption, end_time |-> NoOption]

EmitNext == CreateSccNetcdf \/ CreateSccCalibrationNetcdf

EmitSpec == EmitInit /\ [][EmitNext]_vars

\* ------------------------------------------------------------------------
\* Parsing an option (utils.date_option_to_datetime), called directly
\* ------------------------------------------------------------------------

\* A direct call of date_option_to_datetime(today, string).
ParseOption ==
    /\ pc = "option"
    /\ LET r == date_option_to_datetime(parsed.today, parsed.string)
       IN  /\ parsed' = [parsed EXCEPT !.called = TRUE, !.result = r]
           /\ pc' = IF r.ok THEN "parsed" ELSE "error"
           /\ error' = IF r.ok THEN error ELSE r.value
    /\ UNCHANGED <<files, index, planVars, repoVars, outVars,
                   server, measurement, timeout_timer, exit_code>>

\* The strings handed to the parser: times HH:MM with hours and minutes in
\* and out of range, followed by nothing, by seconds, or by text that does
\* not belong there; the same with XX for the hour and behind a date; and
\* the strings with wrong separators.
OptionHours == {<<"0", "0">>, <<"1", "2">>, <<"2", "3">>, <<"2", "6">>, <<"X", "X">>}
OptionMinutes == {<<"0", "0">>, <<"5", "9">>, <<"7", "0">>}
OptionTails ==
    {<<>>, <<"5">>, <<":", "3", "0">>, <<":", "7", "0">>, <<":", "3", "0", "5">>,
     <<"x">>, <<" ">>, <<"_", "0">>, <<":", "3", "0", ":", "1">>}
OptionTimes ==
    {h \o <<":">> \o m \o tail : h \in OptionHours, m \in OptionMinutes,
                                 tail \in OptionTails}
OptionDays ==
    {<<"2", "0", "2", "1", "-">> \o m \o <<"-">> \o d \o <<"_">> :
        m \in {<<"0", "1">>, <<"0", "2">>, <<"1", "3">>, <<"0", "0">>},
        d \in {<<"0", "2">>, <<"3", "0">>, <<"3", "2">>, <<"0", "0">>}}
OptionDates ==
    {day \o h \o <<":", "1", "0">> \o tail :
        day \in OptionDays, h \in {<<"0", "0">>, <<"2", "6">>},
        tail \in {<<>>, <<":", "3", "0">>, <<"x">>, <<":", "3", "0", "5">>}}
OptionStrings ==
    OptionTimes \cup OptionDates
        \cup {<<"1", "9", "9", "6", "/", "1", "3", "/", "1", "4", " ", "0", "0", ":", "0", "1">>,
              <<"0", "0", "-", "0", "1">>, <<>>}
\* The datetimes the option is resolved against.
OptionTodays ==
    {MakeDatetime(2021, 1, 1, 0, 12, 30), MakeDatetime(2021, 1, 1, 23, 40, 0)}

\* date_option_to_datetime is about to be called.
OptionInit ==
    /\ InitLocals
    /\ pc = "option"
    /\ repo_path = "missing"
    /\ files = <<>>
    /\ index = <<>>
    /\ call = [interval |-> SecondsPerHour, should_round |-> FALSE,
               calibration |-> FALSE, location |-> Station,
               start_time |-> NoOption, end_time |-> NoOption]
    /\ server = NoServer
    /\ measurement = NoMeasurement
    /\ timeout_timer = 0
    /\ exit_code = None
    /\ \E today \in OptionTodays, string \in OptionStrings :
           parsed = [called |-> FALSE, today |-> today, string |-> string,
                     result |-> Raise("")]

OptionNext == ParseOption

OptionSpec == OptionInit /\ [][OptionNext]_vars

\* ------------------------------------------------------------------------
\* Waiting for the ELDEC product (scc_access.commands.AutoUploadCalibration)
\* ------------------------------------------------------------------------

\* The wait gives up once the timer has reached this many seconds.
WaitLimit == 60 * 5
\* Seconds slept, and added to the timer, between two polls.
PollPeriod == 30
\* The largest number of polls the server answers with is_running = true.
MaxProcessing == 12

\* The fields of a Measurement (scc_access.types).
MeasurementFields ==
    {"id", "station_code", "location", "date_start", "date_end",
     "date_creation", "date_updated", "is_uploaded", "hirelpp", "cloudmask",
     "elpp", "elda", "eldec", "elic", "elquick", "is_processing"}

\* Measurement.from_json: is_processing from "is_running", no ELDEC product.
from_json(is_running) ==
    [none |-> FALSE, is_processing |-> is_running, eldec |-> None]

\* SCC.get_measurement: None when the server does not know the measurement
\* (404), UnexpectedResponse on any other failure, the measurement otherwise.
get_measurement(response) ==
    IF response = "404" THEN Ok(NoMeasurement)
    ELSE IF response = "failed" THEN Raise("UnexpectedResponse")
    ELSE Ok(from_json(server.processing > 0))

\* measurement.<name>, for a name that is read as a truth value.
Attribute(m, name) ==
    IF m.none \/ name \notin MeasurementFields THEN Raise("AttributeError")
    ELSE IF name = "is_processing" THEN Ok(m.is_processing)
    ELSE Ok(TRUE)

\* `measurement = scc.get_measurement(measurement_id)`: one poll. The server
\* answers 404 for a measurement it does not know, may fail, and otherwise
\* reports the measurement running for server.processing more polls.
GetMeasurement ==
    /\ pc = "wait"
    /\ \E response \in {IF server.found THEN "ok" ELSE "404", "failed"} :
           LET r == get_measurement(response)
           IN  /\ measurement' = IF r.ok THEN r.value ELSE measurement
               /\ pc' = IF r.ok THEN "check" ELSE "error"
               /\ error' = IF r.ok THEN error ELSE r.value
               /\ server' = IF r.ok /\ server.found /\ server.processing > 0
                                THEN [server EXCEPT !.processing = @ - 1]
                                ELSE server
    /\ UNCHANGED <<files, index, planVars, repoVars, outVars,
                   parsed, timeout_timer, exit_code>>

\* The body of the loop after the poll: the product is ready (break), the
\* file could not be processed or the wait timed out (return 1), or the
\* loop goes on to sleep.
CheckMeasurement ==
    /\ pc = "check"
    /\ LET is_processing == Attribute(measurement, "is_processing")
           is_queued == Attribute(measurement, "is_queued")
       IN  IF ~is_processing.ok
               THEN /\ pc' = "error" /\ error' = is_processing.value
                    /\ UNCHANGED exit_code
           ELSE IF ~is_processing.value /\ ~is_queued.ok
               THEN /\ pc' = "error" /\ error' = is_queued.value
                    /\ UNCHANGED exit_code
           ELSE IF ~is_processing.value /\ ~is_queued.value
               THEN IF measurement.eldec.none
                        THEN /\ pc' = "error" /\ error' = "AttributeError"
                             /\ UNCHANGED exit_code
                    ELSE IF measurement.eldec.value = "OK"
                        THEN /\ pc' = "product"
                             /\ UNCHANGED <<error, exit_code>>
                    ELSE /\ pc' = "exited" /\ exit_code' = Some(1)
                         /\ UNCHANGED error
           ELSE IF timeout_timer >= WaitLimit
               THEN /\ pc' = "exited" /\ exit_code' = Some(1)
                    /\ UNCHANGED error
           ELSE /\ pc' = "sleep"
                /\ UNCHANGED <<error, exit_code>>
    /\ UNCHANGED <<files, index, planVars, repoVars, outVars,
                   parsed, server, measurement, timeout_timer>>

\* `time.sleep(30); timeout_timer += 30`.
Sleep ==
    /\ pc = "sleep"
    /\ timeout_timer' = timeout_timer + PollPeriod
    /\ pc' = "wait"
    /\ UNCHANGED <<files, index, error, planVars, repoVars, outVars,
                   parsed, server, measurement, exit_code>>

\* The calibration file was uploaded and the wait starts: `timeout_timer = 0`.
\* The server knows the measurement or not, and keeps it running for some
\* number of polls.
WaitInit ==
    /\ InitLocals
    /\ pc = "wait"
    /\ repo_path = "missing"
    /\ files = <<>>
    /\ index = <<>>
    /\ call = [interval |-> SecondsPerHour, should_round |-> FALSE,
               calibration |-> FALSE, location |-> Station,
               start_time |-> NoOption, end_time |-> NoOption]
    /\ parsed = NoParse
    /\ measurement = NoMeasurement
    /\ timeout_timer = 0
    /\ exit_code = None
    /\ \E found \in BOOLEAN, processing \in 0..MaxProcessing :
           server = [processing |-> processing, found |-> found]

WaitNext == GetMeasurement \/ CheckMeasurement \/ Sleep

WaitSpec == WaitInit /\ [][WaitNext]_vars

\* The steps of the command are taken one after the other.
FairWaitSpec == WaitSpec /\ WF_vars(WaitNext)

\* ------------------------------------------------------------------------
\* Vocabulary of the properties
\* ------------------------------------------------------------------------

RepoStart == index[1].timestamp
RepoEnd == index[Len(index)].timestamp
NoOverride == ~call.start_time.given /\ ~call.end_time.given
\* Consecutive rows are one sample period apart.
GapFree ==
    \A k \in 1..(Len(index) - 1) :
        index[k + 1].timestamp - index[k].timestamp = SamplePeriod
\* The time t lies in the range get_pollyxt_file was asked for to make the
\* yielded tuple y.
InFetch(y, t) == y.time_start <= t /\ t <= y.time_end
CeilDiv(a, b) == (a + b - 1) \div b
\* The generator has run past its checks without raising.
Running == pc \in {"loop", "calibration", "done"}
\* The tuples of regular files and of calibration files yielded so far.
Regular == SelectSeq(yields, LAMBDA y : y.kind = "regular")
Calibrations == SelectSeq(yields, LAMBDA y : y.kind = "calibration")

\* C1: in a call without start/end options on a repository without gap, no
\* row of the repository is fetched into two regular output files.
C1_NoSampleInTwoWindows ==
    (NoOverride /\ GapFree) =>
        \A i, j \in 1..Len(Regular) :
            i < j => ~\E k \in 1..Len(index) :
                        /\ InFetch(Regular[i], index[k].timestamp)
                        /\ InFetch(Regular[j], index[k].timestamp)

\* Every row lies in the fetched range of some yielded tuple.
AllRowsCovered ==
    \A k \in 1..Len(index) :
        \E i \in 1..Len(Regular) : InFetch(Regular[i], index[k].timestamp)

\* C2, as claimed: once the generator is exhausted, a call without start/end
\* options on any non-empty repository without gap has fetched every row
\* into some regular window.
C2_CoverAnyRepository ==
    (NoOverride /\ GapFree /\ pc = "done") => AllRowsCovered

\* C2, amended: the same for a repository whose first and last row differ in
\* time (RepoStart < RepoEnd).
C2_CoverSpan ==
    (NoOverride /\ GapFree /\ RepoStart < RepoEnd /\ pc = "done") => AllRowsCovered

\* C2 witness: an exhausted run over several windows, the last one partial,
\* that covers every row.
C2_Witness ==
    /\ NoOverride /\ GapFree /\ pc = "done"
    /\ Len(Regular) >= 3
    /\ (RepoEnd - RepoStart) % call.interval # 0
    /\ AllRowsCovered

\* C3: without start/end options and without rounding, the exhausted
\* generator has yielded ceil((E - S) / C) regular tuples for a repository
\* without gap.
C3_WindowCount ==
    (NoOverride /\ GapFree /\ ~call.should_round /\ pc = "done") =>
        Len(Regular) = CeilDiv(RepoEnd - RepoStart, call.interval)

\* C3 witness: an exhausted run of four windows of which the last is partial.
C3_Witness ==
    /\ NoOverride /\ GapFree /\ ~call.should_round /\ pc = "done"
    /\ Len(Regular) = 4
    /\ (RepoEnd - RepoStart) % call.interval # 0

\* C4: the end and start timestamps of every yielded regular tuple are at
\* most the cadence apart.
C4_WindowLength ==
    \A i \in 1..Len(Regular) :
        Regular[i].end_date - Regular[i].start_date <= interval

\* The repository has exactly one gap; GapA is the first missing sample time
\* and GapB the time of the first row after the gap.
GapRows == {k \in 1..(Len(index) - 1) :
               index[k + 1].timestamp - index[k].timestamp > SamplePeriod}
OneGap == Cardinality(GapRows) = 1
GapA == index[CHOOSE k \in GapRows : TRUE].timestamp + SamplePeriod
GapB == index[(CHOOSE k \in GapRows : TRUE) + 1].timestamp
\* The starts of the cadence windows of a call without options or rounding.
PlannedStarts ==
    {RepoStart + j * call.interval :
        j \in 0..(CeilDiv(RepoEnd - RepoStart, call.interval) - 1)}
Emitted(s) == \E i \in 1..Len(Regular) : Regular[i].interval_start = s

\* C5: over a repository with one gap [a,b) the generator raises nothing,
\* and once exhausted it has emitted a file for exactly the cadence windows
\* that do not lie entirely inside [a,b).
C5_SkipExactlyGapWindows ==
    (NoOverride /\ OneGap) =>
        /\ ~(pc = "error" /\ ~queried)
        /\ (pc = "done" /\ ~call.should_round) =>
              \A s \in PlannedStarts :
                  Emitted(s) <=> ~(GapA <= s /\ s + call.interval <= GapB)

\* C6: with a start and an end option that pass the checks, the generator
\* Regular one regular tuple, for the window from start to end, and no more.
C6_OneWindowForStartEnd ==
    (call.start_time.given /\ call.end_time.given /\ Running) =>
        /\ Len(Regular) <= 1
        /\ \A i \in 1..Len(Regular) :
              /\ Regular[i].interval_start = start_time.value
              /\ Regular[i].interval_end = end_time.value
        /\ pc = "done" => Len(Regular) = 1

\* The times the options resolve to (the end option against the last row).
StartResolved == date_option_to_datetime(RepoStart, call.start_time.str)
EndResolved == date_option_to_datetime(RepoEnd, call.end_time.str)
StartValid ==
    /\ call.start_time.given /\ StartResolved.ok
    /\ RepoStart <= StartResolved.value /\ StartResolved.value <= RepoEnd

\* C7: an end option that resolves to a time outside [RepoStart, RepoEnd]
\* ends the generator with TimeOutsideFile, no file written.
C7_EndOutsideRejected ==
    (/\ pc # "start"
     /\ StartValid
     /\ call.end_time.given /\ EndResolved.ok
     /\ (EndResolved.value < RepoStart \/ RepoEnd < EndResolved.value)) =>
        pc = "error" /\ error = "TimeOutsideFile" /\ written = <<>>

\* C8: a start option that resolves to a time before RepoStart or after
\* RepoEnd ends the generator with TimeOutsideFile and no file written; one
\* inside [RepoStart, RepoEnd] becomes measurement_start, and the first
\* window starts there (at the top of its hour when rounding is on).
C8_StartOverride ==
    (pc # "start" /\ call.start_time.given /\ StartResolved.ok) =>
        LET r == StartResolved.value
        IN  /\ (r < RepoStart \/ RepoEnd < r) =>
                  /\ pc = "error" /\ error = "TimeOutsideFile"
                  /\ written = <<>> /\ Regular = <<>>
            /\ (RepoStart <= r /\ r <= RepoEnd) =>
                  /\ error # "TimeOutsideFile" \/ call.end_time.given
                  /\ Running =>
                        /\ measurement_start = r
                        /\ Len(Regular) >= 1 =>
                              Regular[1].interval_start =
                                  IF call.should_round THEN FloorHour(r) ELSE r

\* C8 witness: a start option inside the span, later than the first row, has
\* started the first window.
C8_Witness ==
    /\ StartValid /\ RepoStart < StartResolved.value
    /\ ~call.should_round /\ ~call.end_time.given
    /\ Len(Regular) >= 1
    /\ Regular[1].interval_start = StartResolved.value

\* C8 witness of the rejection: a start option after the last row.
C8_WitnessRejected ==
    /\ call.start_time.given /\ StartResolved.ok
    /\ RepoEnd < StartResolved.value
    /\ pc = "error" /\ error = "TimeOutsideFile" /\ written = <<>>

IsMinutesOption(o) == o.given /\ FullMatch(o.str, MinutesPattern)

\* C9: a start option "XX:MM" resolves to the first time r at or after the
\* first row's time T with minute MM (T <= r < T + 1 hour), and a generator
\* that passed its checks plans from r.
C9_MinutesOnly ==
    IsMinutesOption(call.start_time) =>
        LET r == StartResolved.value
        IN  /\ StartResolved.ok
            /\ RepoStart <= r /\ r < RepoStart + SecondsPerHour
            /\ MinuteOf(r) = TwoDigits(call.start_time.str, 4)
            /\ Running => measurement_start = r
            /\ (Len(Regular) >= 1 /\ ~call.should_round) => Regular[1].interval_start = r

\* C9 witness: first row at 01:50, option "XX:30", first window from 02:30.
C9_Witness ==
    /\ RepoStart = MakeDatetime(2021, 1, 1, 1, 50, 0)
    /\ call.start_time = Option(<<"X", "X", ":", "3", "0">>)
    /\ ~call.should_round
    /\ Len(Regular) >= 1
    /\ Regular[1].interval_start = MakeDatetime(2021, 1, 1, 2, 30, 0)

IsTimeOption(o) == o.given /\ FullMatch(o.str, TimePattern)
\* The times of day HH:MM of the days the repository spans that lie inside
\* [RepoStart, RepoEnd].
QualifyingTimes(o) ==
    {t \in {d + TwoDigits(o.str, 1) * SecondsPerHour
              + TwoDigits(o.str, 4) * SecondsPerMinute :
              d \in {DateOf(RepoStart), DateOf(RepoEnd)}} :
        RepoStart <= t /\ t <= RepoEnd}

\* C10: a start option "HH:MM" whose time of day lies inside the span on
\* some day of the repository is accepted, and planning starts at the first
\* such time.
C10_TimeOfDayFirstQualifyingDay ==
    (/\ pc # "start"
     /\ IsTimeOption(call.start_time) /\ ~call.end_time.given
     /\ TwoDigits(call.start_time.str, 1) < HoursPerDay
     /\ SecondOf(RepoStart) = 0
     /\ QualifyingTimes(call.start_time) # {}) =>
        /\ error # "TimeOutsideFile"
        /\ measurement_start = Min(QualifyingTimes(call.start_time))

\* The last n characters of a string.
Suffix(s, n) == SubSeq(s, Len(s) - n + 1, Len(s))
\* The call is the two-hour scenario: 241 rows from 2021-01-01 00:00:00 to
\* 02:00:00, cadence one hour, rounding on, no start/end option.
TwoHourScenario ==
    /\ Len(index) = ScenarioRows
    /\ RepoStart = MakeDatetime(2021, 1, 1, 0, 0, 0)
    /\ RepoEnd = MakeDatetime(2021, 1, 1, 2, 0, 0)
    /\ call.interval = SecondsPerHour /\ call.should_round /\ NoOverride
\* In the two-hour scenario the generator ends after exactly two regular
\* files, planned from 00:00 and from 01:00, with identifiers ending in
\* "0000" and "0100".
C11_TwoFilesAndIdentifiers ==
    (TwoHourScenario /\ pc = "done") =>
        /\ Len(yields) = 2 /\ Len(written) = 2
        /\ \A k \in 1..2 : yields[k].kind = "regular"
        /\ yields[1].interval_start = MakeDatetime(2021, 1, 1, 0, 0, 0)
        /\ yields[1].interval_end = MakeDatetime(2021, 1, 1, 1, 0, 0)
        /\ yields[2].interval_start = MakeDatetime(2021, 1, 1, 1, 0, 0)
        /\ yields[2].interval_end = MakeDatetime(2021, 1, 1, 2, 0, 0)
        /\ Suffix(yields[1].id, 4) = <<"0", "0", "0", "0">>
        /\ Suffix(yields[2].id, 4) = <<"0", "1", "0", "0">>
\* Each file of the scenario holds the rows of its half-open window only.
C11_HalfOpenWindows ==
    (TwoHourScenario /\ pc = "done") =>
        \A k \in 1..Len(yields) :
            /\ yields[k].interval_start <= yields[k].start_date
            /\ yields[k].end_date < yields[k].interval_end

\* C11: for the repository of 2021-01-01 00:00:00 to 02:00:00 with a row
\* every 30 seconds, cadence 60 minutes and rounding, convert_pollyxt_file
\* emits exactly two regular files, for the windows [00:00,01:00) and
\* [01:00,02:00), with identifiers ending in "0000" and "0100".
C11_TwoHourScenario == C11_TwoFilesAndIdentifiers /\ C11_HalfOpenWindows

\* C12: NoMeasurementsInTimePeriod never ends the generator, whatever the
\* repository, the cadence and the flags, calibration included: a range
\* without rows is passed over.
C12_NoMeasurementsNeverEscapes == error # "NoMeasurementsInTimePeriod"

\* The calibration periods of the repository that pass the test of the
\* second loop and hold rows.
UsablePeriods ==
    {i \in 1..Len(get_calibration_periods(index)) :
        LET p == get_calibration_periods(index)[i]
        IN  ValidPeriod(p) /\ get_pollyxt_file(index, p[1], p[2]).ok}
\* Some raw file holds a non-zero calibration angle.
AngleTurned ==
    \E f \in 1..Len(files) : \E i \in 1..Len(files[f].depol_cal_angle) :
        files[f].depol_cal_angle[i] # 0

\* C13: with calibration=False the generator never queries the calibration
\* periods, yields no calibration tuple and creates no calibration file
\* (every file written is the file of a regular tuple), whatever the
\* calibration angles and the location are.
C13_CalibrationOffSkipsAll ==
    ~call.calibration =>
        /\ ~queried
        /\ pc # "calibration"
        /\ Calibrations = <<>>
        /\ Len(written) = Len(Regular)
        /\ periods = <<>> /\ pending = <<>>

\* C13 witness: a call with calibration off is exhausted over a repository
\* that holds a usable calibration period with the polarizer turned, for a
\* station with depolarization channels.
C13_Witness ==
    /\ ~call.calibration /\ pc = "done"
    /\ call.location.depol_channels # {}
    /\ UsablePeriods # {}
    /\ AngleTurned
    /\ Len(Regular) >= 1

\* The generator has yielded a calibration tuple for the period p.
CalibratedFor(p) ==
    \E i \in 1..Len(Calibrations) :
        Calibrations[i].start_date = p[1] /\ Calibrations[i].end_date = p[2]

\* C20: once a call with calibration on, for a station with depolarization
\* channels, is exhausted, a daily calibration period [cs, ce] has
\* calibration files if and only if RepoStart <= cs and ce <= RepoEnd.
C20_ContainedPeriodsCalibrated ==
    (call.calibration /\ call.location.depol_channels # {} /\ pc = "done") =>
        \A i \in 1..Len(DailyPeriods(index)) :
            LET p == DailyPeriods(index)[i]
            IN  CalibratedFor(p) <=> (RepoStart <= p[1] /\ p[2] <= RepoEnd)

\* Calibration files are made for nothing but daily periods inside the span
\* of the repository.
C20_OnlyContainedPeriods ==
    \A i \in 1..Len(Calibrations) :
        /\ RepoStart <= Calibrations[i].start_date
        /\ Calibrations[i].end_date <= RepoEnd
        /\ \E j \in 1..Len(DailyPeriods(index)) :
               DailyPeriods(index)[j] = <<Calibrations[i].start_date, Calibrations[i].end_date>>

\* A calibration tuple was yielded for each of two daily periods.
TwoPeriodsCalibrated ==
    \E i, j \in 1..Len(Calibrations) :
        Calibrations[i].start_date # Calibrations[j].start_date

\* C14: PollyXTRepository on a directory without *.nc file ends with
\* NoFilesFound, and no repository is built.
C14_NoFilesFoundRaised ==
    (repo_path = "dir" /\ files = <<>> /\ pc # "construct") =>
        pc = "error" /\ error = "NoFilesFound" /\ index = <<>>

\* The timestamps of a time table, decoded row by row.
Decoded(table) == [i \in 1..Len(table) |-> polly_date_to_datetime(table[i]).value]
\* get_pollyxt_file returned a file.
Fetched_Ok == pc = "fetched" /\ assembled.result.ok

\* The start_date and end_date of a file get_pollyxt_file returns are the
\* times of its first and of its last row.
C15_DatesOfFirstAndLast ==
    Fetched_Ok =>
        LET t == Decoded(assembled.result.value.measurement_time)
        IN  /\ assembled.result.value.start_date = t[1]
            /\ assembled.result.value.end_date = t[Len(t)]

\* C15: every row of the file get_pollyxt_file(start, end) returns has a
\* time t with start <= t <= end, whatever the order of the rows in the raw
\* files, and start_date and end_date are the times of its first and last
\* row.
C15_RecordsInsideRequest ==
    /\ C15_DatesOfFirstAndLast
    /\ Fetched_Ok =>
           LET t == Decoded(assembled.result.value.measurement_time)
           IN  \A i \in 1..Len(t) :
                   assembled.time_start <= t[i] /\ t[i] <= assembled.time_end

\* The rows of all raw files, counted.
RECURSIVE TotalRows(_, _)
TotalRows(fs, f) ==
    IF f > Len(fs) THEN 0 ELSE Len(fs[f].measurement_time) + TotalRows(fs, f + 1)
\* The decoded times of all rows of all raw files.
AllTimes(fs) ==
    UNION {{polly_date_to_datetime(fs[f].measurement_time[i]).value :
               i \in 1..Len(fs[f].measurement_time)} : f \in 1..Len(fs)}
\* A repository was built.
Built == pc \in {"ready", "fetched"}

\* C16: the index of a repository built from raw files with M rows in total
\* has M entries, one for every row of every file with that row's decoded
\* time, in non-decreasing order of time, and get_time_period returns the
\* times of its first and last entry, the least and the greatest time.
C16_IndexComplete ==
    Built =>
        /\ Len(index) = TotalRows(files, 1)
        /\ \A f \in 1..Len(files) : \A i \in 1..Len(files[f].measurement_time) :
               Cardinality({k \in 1..Len(index) :
                               /\ index[k].path = f /\ index[k].index = i - 1
                               /\ index[k].timestamp =
                                      polly_date_to_datetime(files[f].measurement_time[i]).value})
                   = 1
        /\ \A k \in 1..(Len(index) - 1) : index[k].timestamp <= index[k + 1].timestamp
        /\ get_time_period(index) = <<index[1].timestamp, index[Len(index)].timestamp>>
        /\ get_time_period(index) = <<Min(AllTimes(files)), Max(AllTimes(files))>>

\* C16 witness: a repository built from two files, the rows of the first
\* out of time order, with a time that two rows share.
C16_Witness ==
    /\ pc = "ready" /\ Len(files) = 2
    /\ Len(index) = MaxRows + 2
    /\ \E k \in 1..(Len(index) - 1) : index[k].timestamp = index[k + 1].timestamp
    /\ \E i \in 1..(Len(files[1].measurement_time) - 1) :
           Decoded(files[1].measurement_time)[i] > Decoded(files[1].measurement_time)[i + 1]

C18_FirstAndLastRowDecoded ==
    (/\ pc = "measured" /\ Len(span.table) > 0
     /\ polly_date_to_datetime(span.table[1]).ok
     /\ polly_date_to_datetime(span.table[Len(span.table)]).ok) =>
        /\ span.result = Ok(<<Decoded(span.table)[1], Decoded(span.table)[Len(span.table)]>>)
        /\ Decoded(span.table)[1] <= Decoded(span.table)[Len(span.table)] =>
               span.result.value[1] <= span.result.value[2]

\* C19: in a file read whole with nan_calibration on, the signal is NaN at
\* exactly the rows whose calibration angle is not zero, and as recorded at
\* all other rows.
C19_CalibrationBlanked ==
    (/\ Fetched_Ok /\ Len(assembled.result.value.parts) = 1
     /\ Len(assembled.result.value.raw_signal)
            = Len(assembled.result.value.depol_cal_angle)) =>
        LET a == assembled.result.value
            f == files[a.parts[1].path]
        IN  \A i \in 1..Len(a.raw_signal) :
                /\ (a.raw_signal[i] = NaN) <=> (a.depol_cal_angle[i] # 0)
                /\ a.depol_cal_angle[i] = 0 => a.raw_signal[i] = f.raw_signal[i]

\* create_scc_netcdf was called directly and wrote its file.
Created == pc = "created" /\ nc.called /\ nc.result.ok
\* HH:MM:00 of the day of t, for a rule HH:MM.
ClockOn(t, rule) == WithTime(t, TwoDigits(rule, 1), TwoDigits(rule, 4), 0)
\* The rule is a time HH:MM of the day.
IsClockRule(rule) ==
    FullMatch(rule, TimePattern) /\ TwoDigits(rule, 1) < HoursPerDay

\* The file carries the daytime configuration exactly when it says
\* Is_Daytime = "yes", and the nighttime configuration otherwise.
C21_FlagMatchesConfiguration ==
    Created =>
        /\ nc.result.value.Is_Daytime = "yes" =>
               nc.result.value.Configuration_ID = call.location.daytime_configuration
        /\ nc.result.value.Is_Daytime # "yes" =>
               /\ nc.result.value.Is_Daytime = "no"
               /\ nc.result.value.Configuration_ID = call.location.nighttime_configuration

\* C21: the regular file of a window that starts at t carries the daytime
\* configuration, and Is_Daytime = "yes", exactly when t lies between the
\* sunrise and the sunset of the location; with both configured as HH:MM
\* that is HH:MM:00(sunrise) < t < HH:MM:00(sunset).
C21_DaytimeBetweenSunriseAndSunset ==
    /\ C21_FlagMatchesConfiguration
    /\ (/\ Created
        /\ IsClockRule(call.location.sunrise_time)
        /\ IsClockRule(call.location.sunset_time)) =>
           LET t == assembled.result.value.start_date
           IN  (nc.result.value.Is_Daytime = "yes") <=>
                   /\ ClockOn(t, call.location.sunrise_time) < t
                   /\ t < ClockOn(t, call.location.sunset_time)

\* C29: the start offsets of a regular file are the seconds elapsed since
\* the first sample of the window: never negative and never decreasing over
\* a window in time order, one that crosses midnight included; every stop
\* offset is its start offset plus 30.
C29_OffsetsFromWindowStart ==
    Created =>
        LET pf == assembled.result.value
            start == nc.result.value.Raw_Data_Start_Time
            stop == nc.result.value.Raw_Data_Stop_Time
            elapsed == Unmasked(pf, [i \in 1..Len(pf.measurement_time) |->
                                        Decoded(pf.measurement_time)[i] - pf.start_date])
        IN  /\ start = elapsed
            /\ \A k \in 1..Len(start) : start[k] >= 0
            /\ \A k \in 1..(Len(start) - 1) : start[k] <= start[k + 1]
            /\ Len(stop) = Len(start)
            /\ \A k \in 1..Len(start) : stop[k] = start[k] + 30

\* create_scc_calibration_netcdf was called directly on a file in which it
\* finds the end of the +45 degree run.
RunsDetected ==
    /\ pc \in {"calibrated", "error"} /\ nc.called
    /\ \E x \in Transitions(files[1].depol_cal_angle) : x >= StartPositive + TurnMargin
\* The lengths of the two runs as the function detects them.
PositiveRun ==
    Min({x \in Transitions(files[1].depol_cal_angle) : x >= StartPositive + TurnMargin})
        - StartPositive
NegativeRun ==
    (Len(files[1].depol_cal_angle) - CycleMargin)
        - (PositiveRun + StartPositive + CycleMargin)

\* In every calibration file written, the two slices and the time dimension
\* have the length of the shorter run.
C28_WrittenSlicesEqual ==
    (RunsDetected /\ pc = "calibrated") =>
        /\ nc.result.value.positive = nc.result.value.negative
        /\ nc.result.value.time = nc.result.value.positive
        /\ nc.result.value.time
               = (IF PositiveRun < NegativeRun THEN PositiveRun ELSE NegativeRun)
        /\ nc.result.value.time >= 0

\* C28: the +45 and the -45 degree slice create_scc_calibration_netcdf
\* writes have the same length, the length of the shorter of the two runs
\* it detected; that length is not negative and is the length of the time
\* dimension of the file.
C28_SlicesTrimmedToShorterRun ==
    /\ C28_WrittenSlicesEqual
    /\ RunsDetected =>
           /\ (IF PositiveRun < NegativeRun THEN PositiveRun ELSE NegativeRun) >= 0
           /\ pc = "calibrated"

\* The raw samples of the parts of an assembled file, in order: pairs of
\* the file and the row (counted from 1).
RECURSIVE PartRows(_, _)
PartRows(parts, k) ==
    IF k > Len(parts) THEN <<>>
    ELSE [i \in 1..(parts[k].end_index - parts[k].start_index + 1) |->
             <<parts[k].path, parts[k].start_index + i>>]
         \o PartRows(parts, k + 1)

\* In every file get_pollyxt_file returns, the time table, the signal and
\* the shot counts have one entry per sample of its parts, entry i of each
\* from the same raw sample.
C27_SignalAligned ==
    Fetched_Ok =>
        LET a == assembled.result.value
            rows == PartRows(a.parts, 1)
        IN  /\ Len(a.measurement_time) = Len(rows)
            /\ Len(a.raw_signal) = Len(rows)
            /\ Len(a.measurement_shots) = Len(rows)
            /\ \A i \in 1..Len(rows) :
                   /\ a.measurement_time[i] = files[rows[i][1]].measurement_time[rows[i][2]]
                   /\ a.raw_signal[i] = files[rows[i][1]].raw_signal[rows[i][2]]
                   /\ a.measurement_shots[i]
                          = files[rows[i][1]].measurement_shots[rows[i][2]]

\* C27: in every file get_pollyxt_file returns, the calibration angles, the
\* time table, the signal and the shot counts have the same length and entry
\* i of each belongs to the same raw sample, also when only a part of a raw
\* file was asked for.
C27_PerSampleSequencesAligned ==
    /\ C27_SignalAligned
    /\ Fetched_Ok =>
           LET a == assembled.result.value
               rows == PartRows(a.parts, 1)
           IN  /\ Len(a.depol_cal_angle) = Len(a.measurement_time)
               /\ \A i \in 1..Len(rows) :
                      a.depol_cal_angle[i] = files[rows[i][1]].depol_cal_angle[rows[i][2]]

\* C25: whatever the cadence and the round-down flag, every pass of the
\* regular loop plans a window that starts later than the window of the pass
\* before, so the loop ends after finitely many windows.
C25_WindowStartAdvances ==
    [][(pc = "loop" /\ LoopCondition /\ pc' = "loop") => WindowStart' > WindowStart]_vars

\* C26: with a cadence of one minute or more, no two regular tuples of a
\* run carry the same identifier, so no regular file of the run is written
\* twice, over repositories with gaps too.
C26_IdentifiersDistinct ==
    (pc # "start" /\ interval >= SecondsPerMinute) =>
        \A i, j \in 1..Len(Regular) : i < j => Regular[i].id # Regular[j].id

\* While the generator runs, one file was created for every tuple yielded.
C22_OneFilePerTuple ==
    pc # "error" => Len(written) = Len(yields)
\* A window that fails creates no file.
C22_FailureCreatesNothing ==
    pc = "error" => Len(written) = Len(yields)
\* No file is created twice: the files of earlier iterations stay as written.
C22_EarlierFilesIntact ==
    \A i, j \in 1..Len(written) : i < j => written[i] # written[j]

\* C22: when the k-th tuple is yielded exactly k output files exist; when
\* the consumer stops or a later window fails, no further file is created
\* and the files of earlier iterations are left as they were written.
C22_LazyOneFilePerTuple ==
    /\ C22_OneFilePerTuple
    /\ C22_FailureCreatesNothing
    /\ C22_EarlierFilesIntact

\* No calibration tuple is yielded before a regular tuple.
C30_RegularBeforeCalibration ==
    \A i, j \in 1..Len(yields) :
        i < j => ~(yields[i].kind = "calibration" /\ yields[j].kind = "regular")

\* C30: every regular tuple is yielded before every calibration tuple, and
\* the regular tuples are yielded in increasing order of the start of the
\* window planned for them.
C30_YieldOrder ==
    /\ C30_RegularBeforeCalibration
    /\ \A i, j \in 1..Len(Regular) :
           i < j => Regular[i].interval_start < Regular[j].interval_start

\* A well-formed option: XX:MM, HH:MM, HH:MM:SS, or one of the last two
\* behind YYYY-mm-DD_, two digits to a field (four to the year), every field
\* in its range and the date a date of the calendar.
TwoDigitField == <<Digits, Digits>>
ClockShape == TwoDigitField \o <<{":"}>> \o TwoDigitField
ClockSecondsShape == ClockShape \o <<{":"}>> \o TwoDigitField
DateShape ==
    <<Digits, Digits, Digits, Digits, {"-"}>> \o TwoDigitField \o <<{"-"}>>
        \o TwoDigitField \o <<{"_"}>>
ClockInRange(s, at) ==
    /\ TwoDigits(s, at) < HoursPerDay
    /\ TwoDigits(s, at + 3) < MinutesPerHour
    /\ Len(s) >= at + 7 => TwoDigits(s, at + 6) < SecondsPerMinute
DateInRange(s) ==
    /\ 100 * TwoDigits(s, 1) + TwoDigits(s, 3) >= 1
    /\ TwoDigits(s, 6) \in 1..12
    /\ TwoDigits(s, 9) \in
           1..DaysInMonth(100 * TwoDigits(s, 1) + TwoDigits(s, 3), TwoDigits(s, 6))
WellFormed(s) ==
    \/ FullMatch(s, <<{"X"}, {"X"}, {":"}>> \o TwoDigitField)
           /\ TwoDigits(s, 4) < MinutesPerHour
    \/ (FullMatch(s, ClockShape) \/ FullMatch(s, ClockSecondsShape))
           /\ ClockInRange(s, 1)
    \/ (FullMatch(s, DateShape \o ClockShape)
            \/ FullMatch(s, DateShape \o ClockSecondsShape))
           /\ DateInRange(s) /\ ClockInRange(s, 12)

\* Every well-formed option is parsed.
C23_WellFormedAccepted ==
    (parsed.called /\ WellFormed(parsed.string)) => parsed.result.ok

\* C23: date_option_to_datetime raises ValueError, and returns no datetime,
\* for every string that is not a well-formed XX:MM, HH:MM[:SS] or
\* YYYY-mm-DD_HH:MM[:SS] with fields in range.
C23_MalformedRejected ==
    (parsed.called /\ ~WellFormed(parsed.string)) =>
        parsed.result = Raise("ValueError")

\* The wait is over: the loop was left or the command ended.
WaitOver == pc \in {"product", "exited", "error"}

\* The timer never passes five minutes, and a wait that timed out ended
\* with exit code 1 after five minutes of sleeping.
C24_WaitBounded ==
    /\ timeout_timer <= 5 * 60
    /\ timeout_timer % 30 = 0
    /\ exit_code \in {None, Some(1)}
    /\ exit_code = Some(1) => (pc = "exited" /\ timeout_timer = 5 * 60)

\* Every wait comes to an end.
C24_WaitEnds == <>WaitOver

\* A wait timed out.
C24_TimedOut == pc = "exited" /\ exit_code = Some(1) /\ timeout_timer = 5 * 60

\* C24: the wait for the ELDEC product is bounded: polling every 30 seconds
\* a server that answers, the loop ends within 5 minutes of waiting, either
\* because the measurement is no longer processing or queued (the loop is
\* left for the download, or the command ends with exit code 1) or by
\* timing out with exit code 1.
C24_WaitEndsAsStated ==
    (WaitOver /\ error # "UnexpectedResponse") =>
        /\ timeout_timer <= 5 * 60
        /\ \/ pc = "product"
           \/ pc = "exited" /\ exit_code = Some(1)

====
